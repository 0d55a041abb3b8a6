----------------------------- MODULE TradeTxProofs -----------------------------
(***************************************************************************)
(* TLAPS proofs about TradeTx, for any number of requests, workers, users, *)
(* products and trades, and any assignment of lock numbers to command ids: *)
(* the transactions implement Marketplace.                                 *)
(***************************************************************************)
EXTENDS TradeTx, TLAPS

(* The checks of a command are looked into wherever its outcomes are. *)
USE DEF When

-----------------------------------------------------------------------------
(* What a request writes, on the tables as they are. *)

Unborn == {t \in Trade : trades[t] = NoTrade}

Creates(r, row, fresh, out) == out \in CreateTrade(r, row, fresh)
Moves(r, row, out) ==
  \/ out \in Accept(r, row)
  \/ out \in Reject(r, row)
  \/ out \in Cancel(r, row)
  \/ out \in Confirm(r, row)
Edits(r, row, out) == out \in ChangeProduct(r, row)
Chooses(r, row, fresh, out) ==
  Creates(r, row, fresh, out) \/ Moves(r, row, out) \/ Edits(r, row, out)

Decides(r, out) == Chooses(r, products[Target(r)], Unborn, out)

Asked == {r \in Request : r.op # "product.create"}

LEMMA Requests ==
  ASSUME NEW r \in Asked
  PROVE  /\ r.actor \in User
         /\ \/ r.op = "trade.create" /\ r.product \in Product /\ r.key \in Key \cup {NoKey}
               /\ "key" \in DOMAIN r /\ r.conv \in {"absent", "null", "own", "other"}
            \/ r.op \in TradeAction /\ r.trade \in Trade /\ r.key \in Key \cup {NoKey}
               /\ "key" \in DOMAIN r
            \/ r.op \in ProductAction /\ r.product \in Product /\ r.price \in Price
               /\ "key" \notin DOMAIN r
            \/ r.op = "review.create" /\ r.trade \in Trade /\ "key" \notin DOMAIN r
  BY RequestAssumption DEF Asked, TradeAction, ProductAction

-----------------------------------------------------------------------------
(* The inductive invariant. *)

Row == [seller : User, price : Price, status : Abs!ProductStatus, version : Nat]

IsTable(f, S) == f = [x \in S |-> f[x]]

TablesOK ==
  /\ products \in [Product -> Row \cup {NoProduct}]
  /\ trades \in [Trade -> Abs!TradeRow \cup {NoTrade}]
  /\ IsTable(ledger, Abs!CommandId) /\ IsTable(tradeEvents, Trade)
  /\ IsTable(productEvents, Product)
  /\ IsTable(keyLock, KeyLocks) /\ IsTable(rowLock, Product)
  /\ IsTable(sent, Request) /\ IsTable(replies, Request)

Early == [pc : {"key", "ledger", "find", "lock", "insert"}, req : Asked, retried : BOOLEAN]
Working == [pc : {"work"}, req : Asked, retried : BOOLEAN, row : Row]
Committing(t) ==
  /\ t = [pc |-> "commit", req |-> t.req, out |-> t.out]
  /\ t.req \in Asked

TxOK ==
  /\ IsTable(tx, Worker)
  /\ \A w \in Worker :
       tx[w] = Idle \/ tx[w] \in Early \/ tx[w] \in Working \/ Committing(tx[w])

(* A request in progress holds its locks. *)
Holds(w) ==
  LET r == tx[w].req IN
  /\ tx[w].pc \in {"work", "commit"} => rowLock[Target(r)] = w
  /\ tx[w].pc \in {"ledger", "find", "lock", "work", "commit"} /\ Keyed(r) =>
       keyLock[LockId(IdOf(r))] = w

(* What it has read is still so. *)
Knows(w) ==
  LET r == tx[w].req IN
  /\ tx[w].pc \in {"find", "lock", "work", "commit"} /\ Keyed(r) => ledger[IdOf(r)] = NoResult
  /\ tx[w].pc \in {"lock", "work", "commit"} =>
       /\ r.op # "review.create"
       /\ r.op \in TradeAction => trades[r.trade] # NoTrade
  /\ tx[w].pc = "work" => tx[w].row = products[Target(r)]
  /\ tx[w].pc \in {"work", "commit"} => products[Target(r)] # NoProduct
  /\ tx[w].pc = "commit" => Decides(r, tx[w].out)
  /\ tx[w].pc = "insert" =>
       /\ r.op = "review.create"
       /\ trades[r.trade].status = "COMPLETED" /\ trades[r.trade].buyer = r.actor

(* No trade is created by two requests. *)
Apart ==
  \A v, w \in Worker :
    /\ v # w
    /\ tx[v].pc = "commit" /\ tx[w].pc = "commit"
    => \A t \in DOMAIN tx[v].out.writes \cap DOMAIN tx[w].out.writes : trades[t] # NoTrade

(* A product is reserved exactly while one of its trades is accepted. *)
Deals ==
  \A p \in Product :
    /\ products[p].status = "RESERVED" <=> InStatus(p, {"ACCEPTED"}) # {}
    /\ \A t, u \in InStatus(p, {"ACCEPTED"}) : t = u

RepliesAreResults == \A r \in Request : Keyed(r) => NoResult \notin replies[r]

Serving == \A w \in Worker : Holds(w) /\ Knows(w)

IInv ==
  /\ TablesOK /\ TxOK /\ Serving /\ Apart /\ Deals
  /\ LocksSuffice /\ RepliesAreResults /\ RepliesAreDurable

-----------------------------------------------------------------------------
(* A command chooses what it writes, and then writes it. *)

LEMMA WorkChooses ==
  ASSUME NEW w, Work(w), NEW r, r = tx[w].req, NEW row, row = tx[w].row
  PROVE  \E out : Chooses(r, row, FreshTrade, out) /\ Write(w, out)
  BY DEF Work, Command, Chooses, Creates, Moves, Edits

-----------------------------------------------------------------------------
(* What a command writes. *)

(* A request whose product, and trade if it names one, are there. *)
Ready(r) ==
  /\ r \in Asked /\ r.op # "review.create"
  /\ r.op \in TradeAction => trades[r.trade] # NoTrade
  /\ products[Target(r)] # NoProduct

LEMMA Aims ==
  ASSUME NEW r, Ready(r), TablesOK
  PROVE  /\ Target(r) \in Product /\ products[Target(r)] \in Row
         /\ r.actor \in User
         /\ \/ /\ r.op \in TradeAction
               /\ r.trade \in Trade /\ trades[r.trade] \in Abs!TradeRow
               /\ Target(r) = trades[r.trade].product
            \/ /\ r.op = "trade.create" \/ r.op \in ProductAction
               /\ Target(r) = r.product
  <1>1. r.actor \in User
    BY Requests DEF Ready
  <1>2. CASE r.op \in TradeAction
    <2>1. r.trade \in Trade
      BY <1>2, Requests DEF Ready, TradeAction, ProductAction
    <2>2. trades[r.trade] \in Abs!TradeRow
      BY <2>1, <1>2 DEF Ready, TablesOK
    <2>3. Target(r) = trades[r.trade].product
      BY <1>2 DEF Target
    <2>4. Target(r) \in Product
      BY <2>2, <2>3 DEF Abs!TradeRow
    <2>5. QED BY <1>1, <1>2, <2>1, <2>2, <2>3, <2>4 DEF Ready, TablesOK
  <1>3. CASE r.op \notin TradeAction
    <2>1. Target(r) = r.product /\ r.product \in Product
      BY <1>3, Requests DEF Ready, Target
    <2>2. r.op = "trade.create" \/ r.op \in ProductAction
      BY <1>3, Requests DEF Ready
    <2>3. QED BY <1>1, <2>1, <2>2 DEF Ready, TablesOK
  <1>4. QED BY <1>2, <1>3

LEMMA NothingIsNone ==
  /\ \A x \in Abs!TradeRow : x # NoTrade /\ x.status \in Abs!TradeStatus
  /\ NoTrade.status = "NONE" /\ NoProduct.status = "NONE"
  /\ \A x \in Row : x # NoProduct
  /\ \A code, t, status : Told(code, t, status).code = code
  /\ NoResult.code = "NONE"
  <1>1. NoTrade.status = "NONE" /\ NoProduct.status = "NONE" /\ NoResult.code = "NONE"
    BY DEF NoTrade, NoProduct, NoResult
  <1>2. \A x \in Abs!TradeRow : x # NoTrade /\ x.status \in Abs!TradeStatus
    BY <1>1 DEF Abs!TradeRow, Abs!TradeStatus
  <1>3. \A x \in Row : x # NoProduct
    BY <1>1 DEF Row, Abs!ProductStatus
  <1>4. QED BY <1>1, <1>2, <1>3 DEF Told

(* A new row differs in its status and version only. *)
LEMMA BumpedRows ==
  ASSUME NEW row \in Row, NEW s \in Abs!ProductStatus
  PROVE  /\ Bumped(row, s) \in Row
         /\ Bumped(row, s).seller = row.seller
         /\ Bumped(row, s).price = row.price
         /\ Bumped(row, s).status = s
  <1>1. row.version + 1 \in Nat
    BY DEF Row
  <1>2. \A n \in Nat : /\ [row EXCEPT !.status = s, !.version = n] \in Row
                       /\ [row EXCEPT !.status = s, !.version = n].seller = row.seller
                       /\ [row EXCEPT !.status = s, !.version = n].price = row.price
                       /\ [row EXCEPT !.status = s, !.version = n].status = s
    BY DEF Row
  <1>3. QED BY <1>1, <1>2 DEF Bumped

(* Command by command: the writes of r are rows of trades of its product, *)
(* new ones or ones in progress.                                          *)
Sane(r, o) ==
  /\ o.row \in Row
  /\ DOMAIN o.writes \subseteq Trade
  /\ \A t \in DOMAIN o.writes :
       /\ o.writes[t] \in Abs!TradeRow /\ o.writes[t].product = Target(r)
       /\ trades[t] # NoTrade => /\ trades[t].product = Target(r)
                                 /\ trades[t].status \in {"PENDING", "ACCEPTED"}
  /\ Keyed(r) => o.result # NoResult

LEMMA StatusMoves ==
  ASSUME NEW x \in Abs!TradeRow, NEW s \in Abs!TradeStatus
  PROVE  /\ [x EXCEPT !.status = s] \in Abs!TradeRow
         /\ [x EXCEPT !.status = s].product = x.product
         /\ [x EXCEPT !.status = s].status = s
  BY DEF Abs!TradeRow

LEMMA TradesAtHand ==
  ASSUME NEW r, Ready(r), TablesOK
  PROVE  \A S \in SUBSET Abs!TradeStatus : \A t \in InStatus(Target(r), S) :
           /\ t \in Trade /\ trades[t] \in Abs!TradeRow
           /\ trades[t].product = Target(r) /\ trades[t].status \in S
  BY NothingIsNone DEF InStatus, TablesOK, Abs!TradeStatus

LEMMA SaneCreation ==
  ASSUME NEW r, Ready(r), TablesOK, NEW o, NEW row, row = products[Target(r)],
         Creates(r, row, Unborn, o)
  PROVE  Sane(r, o)
  <1>1. r.op = "trade.create"
    BY DEF Creates, CreateTrade
  <1>2. Target(r) = r.product /\ row \in Row /\ Target(r) \in Product /\ r.actor \in User
    BY <1>1, Aims DEF TradeAction, ProductAction
  <1>3. ASSUME NEW u, o = Outcome(row, Nothing, Nothing, FALSE,
                                  Told("TRADE_EXISTS", u, trades[u].status))
        PROVE  Sane(r, o)
    <2>1. o.row = row /\ DOMAIN o.writes = {} /\ o.result # NoResult
      BY <1>3 DEF Outcome, Nothing, Told, NoResult
    <2>2. QED BY <1>2, <2>1 DEF Sane
  <1>4. ASSUME NEW u \in Unborn,
               NEW new, new = [product |-> r.product, buyer |-> r.actor,
                               seller |-> row.seller, price |-> row.price,
                               status |-> "PENDING", confirmed |-> {},
                               conversation |-> IF r.conv = "own" THEN "own" ELSE "null"],
               o = Outcome(row, Just(u, new), Just(u, "created"), FALSE,
                           Told("TRADE_CREATED", u, "PENDING"))
        PROVE  Sane(r, o)
    <2>1. new \in Abs!TradeRow /\ new.product = Target(r)
      BY <1>2, <1>4 DEF Abs!TradeRow, Abs!TradeStatus, Abs!Role, Row
    <2>2. o.row = row /\ DOMAIN o.writes = {u} /\ o.writes[u] = new /\ o.result # NoResult
      BY <1>4 DEF Outcome, Just, Told, NoResult
    <2>3. u \in Trade /\ trades[u] = NoTrade
      BY DEF Unborn
    <2>4. QED BY <2>1, <2>2, <2>3, <1>2 DEF Sane
  <1>5. QED BY <1>3, <1>4 DEF Creates, CreateTrade

(* One trade of the product, in progress, is written. *)
LEMMA SaneMove ==
  ASSUME NEW r, Ready(r), TablesOK, r.op \in TradeAction,
         trades[r.trade].status \in {"PENDING", "ACCEPTED"},
         NEW o, o.row \in Row, NEW x \in Abs!TradeRow, x.product = trades[r.trade].product,
         o.writes = Just(r.trade, x), o.result # NoResult
  PROVE  Sane(r, o)
  <1>1. r.trade \in Trade /\ Target(r) = trades[r.trade].product
    BY Aims DEF TradeAction, ProductAction
  <1>2. DOMAIN o.writes = {r.trade} /\ o.writes[r.trade] = x
    BY DEF Just
  <1>3. QED BY <1>1, <1>2 DEF Sane

LEMMA SaneTradeCommands ==
  ASSUME NEW r, Ready(r), TablesOK, NEW o, NEW row, row = products[Target(r)],
         Moves(r, row, o)
  PROVE  Sane(r, o)
  <1>1. r.op \in TradeAction
    BY DEF Moves, Accept, Reject, Cancel, Confirm, TradeAction
  <1>2. PICK t : t = r.trade
    OBVIOUS
  <1>3. PICK old : old = trades[t]
    OBVIOUS
  <1>4. /\ t \in Trade /\ old \in Abs!TradeRow /\ Target(r) = old.product
        /\ row \in Row /\ Target(r) \in Product
    BY <1>1, <1>2, <1>3, Aims DEF TradeAction, ProductAction
  <1>5. \A s \in Abs!ProductStatus : Bumped(row, s) \in Row
    BY <1>4, BumpedRows
  <1>6. {"SOLD", "ON_SALE", "RESERVED"} \subseteq Abs!ProductStatus
    BY DEF Abs!ProductStatus
  <1>7. \A s \in Abs!TradeStatus : /\ [old EXCEPT !.status = s] \in Abs!TradeRow
                                   /\ [old EXCEPT !.status = s].product = old.product
    BY <1>4, StatusMoves
  <1>8. {"PENDING", "ACCEPTED", "COMPLETED", "CANCELLED"} = Abs!TradeStatus
    BY DEF Abs!TradeStatus
  <1>9. CASE o \in Accept(r, row)
    <2> DEFINE gone == InStatus(old.product, {"PENDING"}) \ {t}
    <2>1. old.status = "PENDING"
      BY <1>9, <1>2, <1>3 DEF Accept
    <2>2. /\ o.row = Bumped(row, "RESERVED")
          /\ o.writes = [u \in gone \cup {t} |->
               [trades[u] EXCEPT !.status = IF u = t THEN "ACCEPTED" ELSE "CANCELLED"]]
          /\ o.result # NoResult
      BY <1>9, <1>2, <1>3 DEF Accept, Outcome, Told, NoResult
    <2>3. ASSUME NEW u \in gone \cup {t}
          PROVE  /\ u \in Trade /\ trades[u] \in Abs!TradeRow
                 /\ trades[u].product = Target(r) /\ trades[u].status = "PENDING"
      BY <1>3, <1>4, <1>8, <2>1, TradesAtHand
    <2>4. ASSUME NEW u \in gone \cup {t}
          PROVE  o.writes[u] \in Abs!TradeRow /\ o.writes[u].product = Target(r)
      <3>1. o.writes[u] = [trades[u] EXCEPT !.status = IF u = t THEN "ACCEPTED" ELSE "CANCELLED"]
        BY <2>2
      <3>2. QED BY <2>3, <3>1, <1>8, StatusMoves
    <2>5. DOMAIN o.writes = gone \cup {t}
      BY <2>2
    <2> HIDE DEF gone
    <2>6. QED BY <2>2, <2>3, <2>4, <2>5, <1>5, <1>6 DEF Sane
  <1>10. CASE o \in Reject(r, row)
    <2>1. old.status = "PENDING"
      BY <1>10, <1>2, <1>3 DEF Reject
    <2>2. /\ o.row = row /\ o.result # NoResult
          /\ o.writes = Just(t, [old EXCEPT !.status = "CANCELLED"])
      BY <1>10, <1>2, <1>3 DEF Reject, Outcome, Told, NoResult
    <2>3. PICK x : x = [old EXCEPT !.status = "CANCELLED"]
      OBVIOUS
    <2>4. x \in Abs!TradeRow /\ x.product = old.product
      BY <2>3, <1>7, <1>8
    <2>5. QED BY <1>1, <1>2, <1>3, <1>4, <2>1, <2>2, <2>3, <2>4, SaneMove
  <1>11. CASE o \in Cancel(r, row)
    <2>1. old.status \in {"PENDING", "ACCEPTED"}
      BY <1>11, <1>2, <1>3 DEF Cancel
    <2>2. /\ o.row = IF old.status = "ACCEPTED" THEN Bumped(row, "ON_SALE") ELSE row
          /\ o.result # NoResult
          /\ o.writes = Just(t, [old EXCEPT !.status = "CANCELLED"])
      BY <1>11, <1>2, <1>3 DEF Cancel, Outcome, Told, NoResult
    <2>3. o.row \in Row
      BY <2>2, <1>4, <1>5, <1>6
    <2>4. PICK x : x = [old EXCEPT !.status = "CANCELLED"]
      OBVIOUS
    <2>5. x \in Abs!TradeRow /\ x.product = old.product
      BY <2>4, <1>7, <1>8
    <2>6. QED BY <1>1, <1>2, <1>3, <2>1, <2>2, <2>3, <2>4, <2>5, SaneMove
  <1>12. CASE o \in Confirm(r, row)
    <2>1. PICK sides : sides = Sides(t, r.actor)
      OBVIOUS
    <2>2. sides \in SUBSET Abs!Role
      BY <1>3, <1>4, <2>1 DEF Sides, Abs!TradeRow, Abs!Role
    <2>3. CASE o = Outcome(row, Nothing, Nothing, FALSE, Told("TRADE_CONFIRMED", t, "COMPLETED"))
      <3>1. o.row = row /\ DOMAIN o.writes = {} /\ o.result # NoResult
        BY <2>3 DEF Outcome, Nothing, Told, NoResult
      <3>2. QED BY <3>1, <1>4 DEF Sane
    <2>4. CASE /\ old.status = "ACCEPTED"
               /\ o = Outcome(row, Just(t, [old EXCEPT !.confirmed = sides]),
                              Nothing, FALSE, Told("TRADE_CONFIRMED", t, "ACCEPTED"))
      <3>1. PICK x : x = [old EXCEPT !.confirmed = sides]
        OBVIOUS
      <3>2. x \in Abs!TradeRow /\ x.product = old.product
        BY <1>4, <2>2, <3>1 DEF Abs!TradeRow
      <3>3. o.row = row /\ o.writes = Just(t, x) /\ o.result # NoResult
        BY <2>4, <3>1 DEF Outcome, Told, NoResult
      <3>4. QED BY <1>1, <1>2, <1>3, <1>4, <2>4, <3>2, <3>3, SaneMove
    <2>5. CASE /\ old.status = "ACCEPTED"
               /\ o = Outcome(Bumped(row, "SOLD"),
                        Just(t, [old EXCEPT !.confirmed = sides, !.status = "COMPLETED"]),
                        Just(t, "completed"), TRUE, Told("TRADE_COMPLETED", t, "COMPLETED"))
      <3>1. PICK x : x = [old EXCEPT !.confirmed = sides, !.status = "COMPLETED"]
        OBVIOUS
      <3>2. x \in Abs!TradeRow /\ x.product = old.product
        BY <1>4, <1>8, <2>2, <3>1 DEF Abs!TradeRow
      <3>3. o.row = Bumped(row, "SOLD") /\ o.writes = Just(t, x) /\ o.result # NoResult
        BY <2>5, <3>1 DEF Outcome, Told, NoResult
      <3>4. QED BY <1>1, <1>2, <1>3, <1>5, <1>6, <2>5, <3>2, <3>3, SaneMove
    <2>6. QED BY <1>2, <1>3, <1>12, <2>1, <2>3, <2>4, <2>5 DEF Confirm
  <1>13. QED BY <1>9, <1>10, <1>11, <1>12 DEF Moves

LEMMA SaneProductCommands ==
  ASSUME NEW r, Ready(r), TablesOK, NEW o, NEW row, row = products[Target(r)],
         Edits(r, row, o)
  PROVE  Sane(r, o)
  <1>1. r.op \in ProductAction
    BY DEF Edits, ChangeProduct, ProductAction
  <1>2. ~Keyed(r) /\ r.price \in Price
    BY <1>1, Requests DEF Ready, Keyed, ProductAction, TradeAction
  <1>3. row \in Row /\ row.status \in Abs!ProductStatus
    BY Aims DEF Row
  <1>4. ASSUME NEW new \in Row, o = Outcome(new, Nothing, Nothing, FALSE, NoResult)
        PROVE  Sane(r, o)
    <2>1. o.row = new /\ DOMAIN o.writes = {}
      BY <1>4 DEF Outcome, Nothing
    <2>2. QED BY <1>2, <2>1 DEF Sane
  <1>5. \A s \in Abs!ProductStatus : Bumped(row, s) \in Row
    BY <1>3, BumpedRows
  <1>6. \A new \in Row : [new EXCEPT !.price = r.price] \in Row
    BY <1>2 DEF Row
  <1>7. {"OFF_SHELF", "ON_SALE"} \subseteq Abs!ProductStatus
    BY DEF Abs!ProductStatus
  <1>8. QED BY <1>3, <1>4, <1>5, <1>6, <1>7 DEF Edits, ChangeProduct

LEMMA SaneCommands ==
  ASSUME NEW r, Ready(r), TablesOK, NEW o, Decides(r, o)
  PROVE  Sane(r, o)
  BY SaneCreation, SaneTradeCommands, SaneProductCommands DEF Decides, Chooses

-----------------------------------------------------------------------------
(* What a command does to the deals of its product. *)

Kept(row, o) ==
  /\ \A t \in DOMAIN o.writes : trades[t].status # "ACCEPTED" /\ o.writes[t].status # "ACCEPTED"
  /\ o.row.status = "RESERVED" <=> row.status = "RESERVED"
Struck(row, o) ==
  /\ row.status = "ON_SALE" /\ o.row.status = "RESERVED"
  /\ \E t \in DOMAIN o.writes :
       \A u \in DOMAIN o.writes : o.writes[u].status = "ACCEPTED" <=> u = t
Confirmed(row, o) ==
  /\ o.row = row
  /\ \E t : /\ DOMAIN o.writes = {t}
            /\ trades[t].status = "ACCEPTED" /\ o.writes[t].status = "ACCEPTED"
Ended(row, o) ==
  /\ row.status = "RESERVED" /\ o.row.status # "RESERVED"
  /\ \E t : /\ DOMAIN o.writes = {t}
            /\ trades[t].status = "ACCEPTED" /\ o.writes[t].status # "ACCEPTED"

LEMMA DealSteps ==
  ASSUME NEW r, Ready(r), TablesOK, NEW o, NEW row, row = products[Target(r)],
         Chooses(r, row, Unborn, o)
  PROVE  /\ (\E t \in DOMAIN o.writes : o.writes[t].status = "PENDING") =>
              Intent(Target(r), r.actor) = {}
         /\ Kept(row, o) \/ Struck(row, o) \/ Confirmed(row, o) \/ Ended(row, o)
  <1>1. CASE Creates(r, row, Unborn, o)
    <2>1. r.op = "trade.create"
      BY <1>1 DEF Creates, CreateTrade
    <2>2. Target(r) = r.product
      BY <2>1, Aims DEF TradeAction, ProductAction
    <2>3. ASSUME NEW u, o = Outcome(row, Nothing, Nothing, FALSE,
                                    Told("TRADE_EXISTS", u, trades[u].status))
          PROVE  o.row = row /\ DOMAIN o.writes = {}
      BY <2>3 DEF Outcome, Nothing
    <2>4. ASSUME NEW u \in Unborn,
                 NEW new, new = [product |-> r.product, buyer |-> r.actor,
                                 seller |-> row.seller, price |-> row.price,
                                 status |-> "PENDING", confirmed |-> {},
                                 conversation |-> IF r.conv = "own" THEN "own" ELSE "null"],
                 o = Outcome(row, Just(u, new), Just(u, "created"), FALSE,
                             Told("TRADE_CREATED", u, "PENDING"))
          PROVE  Kept(row, o)
      <3>1. o.row = row /\ DOMAIN o.writes = {u} /\ o.writes[u] = new
        BY <2>4 DEF Outcome, Just
      <3>2. new.status = "PENDING" /\ trades[u].status = "NONE"
        BY <2>4, NothingIsNone DEF Unborn
      <3>3. QED BY <3>1, <3>2 DEF Kept
    <2>5. \/ o.row = row /\ DOMAIN o.writes = {}
          \/ Intent(r.product, r.actor) = {} /\ Kept(row, o)
      BY <1>1, <2>3, <2>4 DEF Creates, CreateTrade
    <2>6. QED BY <2>2, <2>5 DEF Kept
  <1>2. CASE Moves(r, row, o)
    <2>1. r.op \in TradeAction
      BY <1>2 DEF Moves, Accept, Reject, Cancel, Confirm, TradeAction
    <2>2. PICK t : t = r.trade
      OBVIOUS
    <2>3. PICK old : old = trades[t]
      OBVIOUS
    <2>4. t \in Trade /\ old \in Abs!TradeRow /\ Target(r) = old.product /\ row \in Row
      BY <2>1, <2>2, <2>3, Aims DEF TradeAction, ProductAction
    <2>5. \A s \in Abs!ProductStatus : Bumped(row, s).status = s
      BY <2>4, BumpedRows
    <2>6. {"SOLD", "ON_SALE", "RESERVED"} \subseteq Abs!ProductStatus
      BY DEF Abs!ProductStatus
    <2>7. [old EXCEPT !.status = "CANCELLED"].status = "CANCELLED"
      BY <2>4, StatusMoves DEF Abs!TradeStatus
    <2>8. CASE o \in Accept(r, row)
      <3> DEFINE gone == InStatus(old.product, {"PENDING"}) \ {t}
      <3>1. row.status = "ON_SALE"
        BY <2>8 DEF Accept
      <3>2. /\ o.row = Bumped(row, "RESERVED")
            /\ o.writes = [u \in gone \cup {t} |->
                 [trades[u] EXCEPT !.status = IF u = t THEN "ACCEPTED" ELSE "CANCELLED"]]
        BY <2>8, <2>2, <2>3 DEF Accept, Outcome
      <3>3. ASSUME NEW u \in gone \cup {t}
            PROVE  o.writes[u].status = IF u = t THEN "ACCEPTED" ELSE "CANCELLED"
        <4>1. trades[u] \in Abs!TradeRow
          BY <2>3, <2>4, TradesAtHand DEF Abs!TradeStatus
        <4>2. o.writes[u] = [trades[u] EXCEPT !.status = IF u = t THEN "ACCEPTED" ELSE "CANCELLED"]
          BY <3>2
        <4>3. QED BY <4>1, <4>2, StatusMoves DEF Abs!TradeStatus
      <3>4. DOMAIN o.writes = gone \cup {t} /\ t \in gone \cup {t}
        BY <3>2
      <3> HIDE DEF gone
      <3>5. o.row.status = "RESERVED"
        BY <3>2, <2>5, <2>6
      <3>6. \A u \in DOMAIN o.writes : o.writes[u].status = IF u = t THEN "ACCEPTED" ELSE "CANCELLED"
        BY <3>3, <3>4
      <3>7. Struck(row, o)
        BY <3>1, <3>4, <3>5, <3>6 DEF Struck
      <3>8. QED BY <3>6, <3>7
    <2>9. CASE o \in Reject(r, row)
      <3>1. old.status = "PENDING"
        BY <2>9, <2>2, <2>3 DEF Reject
      <3>2. o.row = row /\ o.writes = Just(t, [old EXCEPT !.status = "CANCELLED"])
        BY <2>9, <2>2, <2>3 DEF Reject, Outcome
      <3>3. DOMAIN o.writes = {t} /\ o.writes[t].status = "CANCELLED"
        BY <3>2, <2>7 DEF Just
      <3>4. QED BY <2>3, <3>1, <3>2, <3>3 DEF Kept
    <2>10. CASE o \in Cancel(r, row)
      <3>1. \/ old.status = "PENDING"
            \/ old.status = "ACCEPTED" /\ row.status = "RESERVED"
        BY <2>10, <2>2, <2>3 DEF Cancel
      <3>2. /\ o.row = IF old.status = "ACCEPTED" THEN Bumped(row, "ON_SALE") ELSE row
            /\ o.writes = Just(t, [old EXCEPT !.status = "CANCELLED"])
        BY <2>10, <2>2, <2>3 DEF Cancel, Outcome
      <3>3. DOMAIN o.writes = {t} /\ o.writes[t].status = "CANCELLED"
        BY <3>2, <2>7 DEF Just
      <3>4. CASE old.status = "PENDING"
        BY <2>3, <3>2, <3>3, <3>4 DEF Kept
      <3>5. CASE old.status = "ACCEPTED" /\ row.status = "RESERVED"
        <4>1. o.row.status = "ON_SALE"
          BY <3>2, <3>5, <2>5, <2>6
        <4>2. QED BY <2>3, <3>3, <3>5, <4>1 DEF Ended
      <3>6. QED BY <3>1, <3>4, <3>5
    <2>11. CASE o \in Confirm(r, row)
      <3>1. PICK sides : sides = Sides(t, r.actor)
        OBVIOUS
      <3>2. CASE o = Outcome(row, Nothing, Nothing, FALSE, Told("TRADE_CONFIRMED", t, "COMPLETED"))
        <4>1. o.row = row /\ DOMAIN o.writes = {}
          BY <3>2 DEF Outcome, Nothing
        <4>2. QED BY <4>1 DEF Kept
      <3>3. CASE /\ old.status = "ACCEPTED"
                 /\ o = Outcome(row, Just(t, [old EXCEPT !.confirmed = sides]),
                                Nothing, FALSE, Told("TRADE_CONFIRMED", t, "ACCEPTED"))
        <4>1. [old EXCEPT !.confirmed = sides].status = "ACCEPTED"
          BY <2>4, <3>3 DEF Abs!TradeRow
        <4>2. o.row = row /\ DOMAIN o.writes = {t} /\ o.writes[t].status = "ACCEPTED"
          BY <3>3, <4>1 DEF Outcome, Just
        <4>3. QED BY <2>3, <3>3, <4>2 DEF Confirmed
      <3>4. CASE /\ old.status = "ACCEPTED" /\ row.status = "RESERVED"
                 /\ o = Outcome(Bumped(row, "SOLD"),
                          Just(t, [old EXCEPT !.confirmed = sides, !.status = "COMPLETED"]),
                          Just(t, "completed"), TRUE, Told("TRADE_COMPLETED", t, "COMPLETED"))
        <4>1. [old EXCEPT !.confirmed = sides, !.status = "COMPLETED"].status = "COMPLETED"
          BY <2>4 DEF Abs!TradeRow
        <4>2. o.row.status = "SOLD"
          BY <3>4, <2>5, <2>6 DEF Outcome
        <4>3. DOMAIN o.writes = {t} /\ o.writes[t].status = "COMPLETED"
          BY <3>4, <4>1 DEF Outcome, Just
        <4>4. QED BY <2>3, <3>4, <4>2, <4>3 DEF Ended
      <3>5. QED BY <2>2, <2>3, <2>11, <3>1, <3>2, <3>3, <3>4 DEF Confirm
    <2>12. QED BY <1>2, <2>8, <2>9, <2>10, <2>11 DEF Moves
  <1>3. CASE Edits(r, row, o)
    <2>1. r.op \in ProductAction
      BY <1>3 DEF Edits, ChangeProduct, ProductAction
    <2>2. row \in Row
      BY Aims
    <2>3. \A s \in Abs!ProductStatus : Bumped(row, s) \in Row /\ Bumped(row, s).status = s
      BY <2>2, BumpedRows
    <2>4. \A x \in Row : [x EXCEPT !.price = r.price].status = x.status
      BY DEF Row
    <2>5. {"OFF_SHELF", "ON_SALE"} \subseteq Abs!ProductStatus
      BY DEF Abs!ProductStatus
    <2>6. ASSUME NEW new, new.status # "RESERVED", row.status # "RESERVED",
                 o = Outcome(new, Nothing, Nothing, FALSE, NoResult)
          PROVE  Kept(row, o) /\ DOMAIN o.writes = {}
      BY <2>6 DEF Outcome, Nothing, Kept
    <2>7. PICK s \in {"OFF_SHELF", "ON_SALE"} : \E new :
            /\ new = Bumped(row, s) \/ new = [Bumped(row, s) EXCEPT !.price = r.price]
            /\ row.status # "RESERVED"
            /\ o = Outcome(new, Nothing, Nothing, FALSE, NoResult)
      BY <1>3 DEF Edits, ChangeProduct
    <2>10. PICK new : /\ new = Bumped(row, s) \/ new = [Bumped(row, s) EXCEPT !.price = r.price]
                     /\ row.status # "RESERVED"
                     /\ o = Outcome(new, Nothing, Nothing, FALSE, NoResult)
      BY <2>7
    <2>8. new.status = s
      BY <2>3, <2>4, <2>5, <2>10
    <2>9. QED BY <2>6, <2>8, <2>10
  <1>4. QED BY <1>1, <1>2, <1>3 DEF Chooses

(* With the deals in order and no stored result, the schema has nothing to *)
(* refuse.                                                                 *)
LEMMA NothingRefused ==
  ASSUME NEW r, Ready(r), TablesOK, Deals, NEW o, NEW row, row = products[Target(r)],
         Chooses(r, row, Unborn, o), Keyed(r) => ledger[IdOf(r)] = NoResult
  PROVE  Refusals(r, row, o) = {}
  <1>1. PICK p : p = Target(r)
    OBVIOUS
  <1>2. p \in Product
    BY <1>1, Aims
  <1>3. Sane(r, o)
    BY SaneCommands DEF Decides
  <1>4. /\ row.status = "RESERVED" <=> InStatus(p, {"ACCEPTED"}) # {}
        /\ \A t, u \in InStatus(p, {"ACCEPTED"}) : t = u
    BY <1>1, <1>2 DEF Deals
  <1>5. ASSUME NEW t \in DOMAIN o.writes, o.writes[t].status = "ACCEPTED"
        PROVE  InStatus(p, {"ACCEPTED"}) \ DOMAIN o.writes = {}
    <2>1. Struck(row, o) \/ Confirmed(row, o)
      BY <1>5, DealSteps DEF Kept, Ended
    <2>2. CASE Struck(row, o)
      BY <1>4, <2>2 DEF Struck
    <2>3. CASE Confirmed(row, o)
      <3>1. DOMAIN o.writes = {t} /\ trades[t].status = "ACCEPTED"
        BY <2>3 DEF Confirmed
      <3>2. t \in InStatus(p, {"ACCEPTED"})
        BY <1>1, <1>3, <3>1, NothingIsNone DEF Sane, InStatus
      <3>3. QED BY <1>4, <3>1, <3>2
    <2>4. QED BY <2>1, <2>2, <2>3
  <1>6. (\E t \in DOMAIN o.writes : o.writes[t].status = "PENDING") => Intent(p, r.actor) = {}
    BY <1>1, DealSteps
  <1>7. QED BY <1>1, <1>5, <1>6 DEF Refusals

LEMMA Applied ==
  ASSUME NEW r, NEW o, Target(r) \in Product, TablesOK, Apply(r, o)
  PROVE  /\ \A q \in Product : products'[q] = IF q = Target(r) THEN o.row ELSE products[q]
         /\ \A t \in Trade : trades'[t] = IF t \in DOMAIN o.writes THEN o.writes[t] ELSE trades[t]
         /\ \A c \in Abs!CommandId :
              ledger'[c] = IF Keyed(r) /\ c = IdOf(r) THEN o.result ELSE ledger[c]
  <1>1. IsTable(ledger, Abs!CommandId)
    BY DEF TablesOK
  <1>2. ledger' = IF Keyed(r) THEN [ledger EXCEPT ![IdOf(r)] = o.result] ELSE ledger
    BY DEF Apply
  <1>3. \A c \in Abs!CommandId :
          ledger'[c] = IF Keyed(r) /\ c = IdOf(r) THEN o.result ELSE ledger[c]
    BY <1>1, <1>2 DEF IsTable
  <1>4. QED BY <1>3 DEF Apply, TablesOK

LEMMA DealsAfter ==
  ASSUME NEW r, Ready(r), TablesOK, Deals, NEW o, Decides(r, o), Apply(r, o)
  PROVE  Deals'
  <1>1. PICK p : p = Target(r)
    OBVIOUS
  <1>2. PICK row : row = products[p]
    OBVIOUS
  <1>3. p \in Product
    BY <1>1, Aims
  <1>4. Sane(r, o)
    BY SaneCommands
  <1>5. /\ \A q \in Product : products'[q] = IF q = p THEN o.row ELSE products[q]
        /\ \A t \in Trade : trades'[t] = IF t \in DOMAIN o.writes THEN o.writes[t] ELSE trades[t]
    BY <1>1, <1>3, Applied
  <1>6. \A q \in Product : \A t : t \in InStatus(q, {"ACCEPTED"})' <=>
          t \in Trade /\ trades'[t].status = "ACCEPTED" /\ trades'[t].product = q
    BY DEF InStatus
  <1>7. \A t \in DOMAIN o.writes :
          /\ t \in Trade /\ o.writes[t].product = p
          /\ trades[t].status = "ACCEPTED" => trades[t].product = p
    BY <1>1, <1>4, NothingIsNone DEF Sane
  <1>8. ASSUME NEW q \in Product, q # p
        PROVE  InStatus(q, {"ACCEPTED"})' = InStatus(q, {"ACCEPTED"})
    <2>1. \A t \in Trade :
            trades'[t].status = "ACCEPTED" /\ trades'[t].product = q
              <=> trades[t].status = "ACCEPTED" /\ trades[t].product = q
      BY <1>5, <1>7, <1>8
    <2>2. QED BY <1>6, <2>1 DEF InStatus
  <1>9. PICK A : A = InStatus(p, {"ACCEPTED"})
    OBVIOUS
  <1>10. PICK B : B = InStatus(p, {"ACCEPTED"})'
    OBVIOUS
  <1>11. /\ row.status = "RESERVED" <=> A # {}
         /\ \A t, u \in A : t = u
    BY <1>2, <1>3, <1>9 DEF Deals
  <1>12. \A t \in Trade : t \in A <=> trades[t].status = "ACCEPTED" /\ trades[t].product = p
    BY <1>9 DEF InStatus
  <1>13. \A t : t \in B <=>
           \/ t \in DOMAIN o.writes /\ o.writes[t].status = "ACCEPTED"
           \/ t \in A /\ t \notin DOMAIN o.writes
    BY <1>3, <1>5, <1>6, <1>7, <1>9, <1>10, <1>12 DEF InStatus
  <1>14. /\ o.row.status = "RESERVED" <=> B # {}
         /\ \A t, u \in B : t = u
    <2>1. Kept(row, o) \/ Struck(row, o) \/ Confirmed(row, o) \/ Ended(row, o)
      BY <1>1, <1>2, DealSteps DEF Decides
    <2>2. CASE Kept(row, o)
      <3>1. A = B
        BY <2>2, <1>7, <1>12, <1>13 DEF Kept
      <3>2. QED BY <2>2, <3>1, <1>11 DEF Kept
    <2>3. CASE Struck(row, o)
      BY <2>3, <1>11, <1>13 DEF Struck
    <2>4. CASE Confirmed(row, o)
      <3>1. PICK t : DOMAIN o.writes = {t} /\ trades[t].status = "ACCEPTED"
                     /\ o.writes[t].status = "ACCEPTED" /\ o.row = row
        BY <2>4 DEF Confirmed
      <3>2. t \in A
        BY <3>1, <1>7, <1>12
      <3>3. QED BY <3>1, <3>2, <1>11, <1>13
    <2>5. CASE Ended(row, o)
      <3>1. PICK t : DOMAIN o.writes = {t} /\ trades[t].status = "ACCEPTED"
                     /\ o.writes[t].status # "ACCEPTED" /\ o.row.status # "RESERVED"
        BY <2>5 DEF Ended
      <3>2. t \in A
        BY <3>1, <1>7, <1>12
      <3>3. B = {}
        BY <3>1, <3>2, <1>11, <1>13
      <3>4. QED BY <3>1, <3>3
    <2>6. QED BY <2>1, <2>2, <2>3, <2>4, <2>5
  <1>15. ASSUME NEW q \in Product
         PROVE  /\ products'[q].status = "RESERVED" <=> InStatus(q, {"ACCEPTED"})' # {}
                /\ \A t, u \in InStatus(q, {"ACCEPTED"})' : t = u
    <2>1. CASE q = p
      BY <2>1, <1>5, <1>10, <1>14
    <2>2. CASE q # p
      BY <2>2, <1>5, <1>8 DEF Deals
    <2>3. QED BY <2>1, <2>2
  <1>16. QED BY <1>15 DEF Deals

-----------------------------------------------------------------------------
(* A decision stands while the trades of its product do. *)

LEMMA DecisionsStand ==
  ASSUME NEW r, Ready(r), TablesOK, NEW o, Decides(r, o), NEW p, p = Target(r),
         products'[p] = products[p],
         \A t \in Trade : trades[t] # NoTrade /\ trades[t].product = p => trades'[t] = trades[t],
         \A t \in Trade : trades'[t] # trades[t] => trades'[t].product # p,
         \A t \in DOMAIN o.writes : trades[t] = NoTrade => trades'[t] = NoTrade
  PROVE  Decides(r, o)' /\ Target(r)' = p
  <1>1. PICK row : row = products[p]
    OBVIOUS
  <1>2. ASSUME NEW S \in SUBSET Abs!TradeStatus
        PROVE  /\ InStatus(p, S)' = InStatus(p, S)
               /\ \A t \in InStatus(p, S) : trades'[t] = trades[t]
    <2>1. \A t \in Trade : trades[t].status \in S => trades[t] # NoTrade
      BY NothingIsNone DEF Abs!TradeStatus
    <2>2. \A t \in Trade :
            trades'[t].status \in S /\ trades'[t].product = p
              <=> trades[t].status \in S /\ trades[t].product = p
      BY <2>1
    <2>3. InStatus(p, S)' = {t \in Trade : trades'[t].status \in S /\ trades'[t].product = p}
      BY DEF InStatus
    <2>4. QED BY <2>1, <2>2, <2>3 DEF InStatus
  <1>3. ASSUME r.op \in TradeAction
        PROVE  r.trade \in Trade /\ p = trades[r.trade].product
               /\ trades'[r.trade] = trades[r.trade]
    <2>1. r.trade \in Trade /\ p = trades[r.trade].product
      BY <1>3, Aims DEF TradeAction, ProductAction
    <2>2. QED BY <1>3, <2>1 DEF Ready
  <1>4. Target(r)' = p
    BY <1>3 DEF Target
  <1>5. Chooses(r, row, Unborn, o)
    BY <1>1 DEF Decides
  <1>6. CASE Creates(r, row, Unborn, o)
    <2>1. r.op = "trade.create"
      BY <1>6 DEF Creates, CreateTrade
    <2>2. r.product = p
      BY <2>1, Aims DEF TradeAction, ProductAction
    <2>3. PICK live : live = InStatus(p, {"PENDING", "ACCEPTED"})
      OBVIOUS
    <2>4. InStatus(p, {"PENDING", "ACCEPTED"})' = live /\ \A t \in live : trades'[t] = trades[t]
      BY <1>2, <2>3 DEF Abs!TradeStatus
    <2>5. /\ Intent(p, r.actor)' = Intent(p, r.actor)
          /\ \A t \in Intent(p, r.actor) : trades'[t] = trades[t]
      BY <2>3, <2>4 DEF Intent
    <2>6. ASSUME \E t \in Intent(p, r.actor) :
                 /\ r.conv \in {"absent", trades[t].conversation}
                 /\ o = Outcome(row, Nothing, Nothing, FALSE,
                                Told("TRADE_EXISTS", t, trades[t].status))
          PROVE  Creates(r, row, Unborn, o)'
      <3>1. \E t \in Intent(p, r.actor)' :
              /\ r.conv \in {"absent", trades'[t].conversation}
              /\ o = Outcome(row, Nothing, Nothing, FALSE,
                             Told("TRADE_EXISTS", t, trades'[t].status))
        BY <2>5, <2>6
      <3>2. QED BY <2>1, <2>2, <3>1 DEF Creates, CreateTrade
    <2>7. ASSUME ~ \E t \in Intent(p, r.actor) :
                 /\ r.conv \in {"absent", trades[t].conversation}
                 /\ o = Outcome(row, Nothing, Nothing, FALSE,
                                Told("TRADE_EXISTS", t, trades[t].status))
          PROVE  Creates(r, row, Unborn, o)'
      <3>1. PICK new : new =
              [product |-> r.product, buyer |-> r.actor, seller |-> row.seller,
               price |-> row.price, status |-> "PENDING", confirmed |-> {},
               conversation |-> IF r.conv = "own" THEN "own" ELSE "null"]
        OBVIOUS
      <3>2. /\ Intent(p, r.actor) = {} /\ r.conv # "other"
            /\ row.seller # r.actor /\ row.status = "ON_SALE"
            /\ \E t \in Unborn :
                 o = Outcome(row, Just(t, new), Just(t, "created"), FALSE,
                             Told("TRADE_CREATED", t, "PENDING"))
        BY <1>6, <2>2, <2>7, <3>1 DEF Creates, CreateTrade
      <3>3. PICK t \in Unborn :
                 o = Outcome(row, Just(t, new), Just(t, "created"), FALSE,
                             Told("TRADE_CREATED", t, "PENDING"))
        BY <3>2
      <3>4. t \in DOMAIN o.writes
        BY <3>3 DEF Outcome, Just
      <3>5. t \in Unborn'
        BY <3>4 DEF Unborn
      <3>6. QED BY <2>1, <2>2, <2>5, <3>1, <3>2, <3>3, <3>5 DEF Creates, CreateTrade
    <2>8. QED BY <2>6, <2>7, <1>1, <1>4 DEF Decides, Chooses
  <1>7. CASE Moves(r, row, o)
    <2>1. r.op \in TradeAction
      BY <1>7 DEF Moves, Accept, Reject, Cancel, Confirm, TradeAction
    <2>2. PICK t, old : t = r.trade /\ old = trades[t]
      OBVIOUS
    <2>3. old = trades'[t] /\ p = old.product
      BY <1>3, <2>1, <2>2
    <2>4. ASSUME o \in Accept(r, row)
          PROVE  Moves(r, row, o)'
      <3>1. PICK G : G = InStatus(old.product, {"PENDING"}) \ {t}
        OBVIOUS
      <3>2. G = InStatus(old.product, {"PENDING"})' \ {t} /\ \A u \in G : trades'[u] = trades[u]
        BY <1>2, <2>3, <3>1 DEF Abs!TradeStatus
      <3>3. PICK f : f = [u \in G \cup {t} |->
               [trades[u] EXCEPT !.status = IF u = t THEN "ACCEPTED" ELSE "CANCELLED"]]
        OBVIOUS
      <3>4. f = [u \in G \cup {t} |->
               [trades'[u] EXCEPT !.status = IF u = t THEN "ACCEPTED" ELSE "CANCELLED"]]
        <4>1. \A u \in G \cup {t} : trades'[u] = trades[u]
          BY <2>2, <2>3, <3>2
        <4>2. QED BY <3>3, <4>1
      <3>5. InStatus(trades[r.trade].product, {"PENDING"})' \ {r.trade} = G
        BY <2>2, <2>3, <3>2 DEF InStatus
      <3>6. PICK g : g = [u \in G \cup {t} |-> IF u = t THEN "accepted" ELSE "cancelled"]
        OBVIOUS
      <3>7. /\ r.op = "trade.accept"
            /\ old.seller = r.actor /\ old.status = "PENDING" /\ row.status = "ON_SALE"
            /\ o = Outcome(Bumped(row, "RESERVED"), f, g, TRUE,
                           Told("TRADE_ACCEPTED", t, "ACCEPTED"))
        BY <2>2, <2>4, <3>1, <3>3, <3>6 DEF Accept
      <3>8. QED BY <2>2, <2>3, <3>4, <3>5, <3>6, <3>7 DEF Accept, Moves
    <2>5. ASSUME o \in Reject(r, row)
          PROVE  Moves(r, row, o)'
      BY <2>2, <2>3, <2>5 DEF Moves, Reject
    <2>6. ASSUME o \in Cancel(r, row)
          PROVE  Moves(r, row, o)'
      BY <2>2, <2>3, <2>6 DEF Moves, Cancel
    <2>7. ASSUME o \in Confirm(r, row)
          PROVE  Moves(r, row, o)'
      BY <2>2, <2>3, <2>7 DEF Moves, Confirm, Sides
    <2>8. Moves(r, row, o)'
      BY <1>7, <2>4, <2>5, <2>6, <2>7 DEF Moves
    <2>9. QED BY <2>8, <1>1, <1>4 DEF Decides, Chooses
  <1>8. CASE Edits(r, row, o)
    <2>1. r.op \in ProductAction
      BY <1>8 DEF Edits, ChangeProduct, ProductAction
    <2>2. r.product = p
      BY <2>1, Aims DEF TradeAction, ProductAction
    <2>3. InStatus(p, {"PENDING"})' = InStatus(p, {"PENDING"})
      BY <1>2 DEF Abs!TradeStatus
    <2>4. Edits(r, row, o)'
      BY <1>8, <2>2, <2>3 DEF Edits, ChangeProduct
    <2>5. QED BY <2>4, <1>1, <1>4 DEF Decides, Chooses
  <1>9. QED BY <1>4, <1>5, <1>6, <1>7, <1>8 DEF Chooses

(* A new trade is one that no transaction has written yet. *)
LEMMA FreshWrites ==
  ASSUME NEW r, NEW row, NEW o, Chooses(r, row, FreshTrade, o), TablesOK,
         Ready(r), row = products[Target(r)]
  PROVE  /\ Chooses(r, row, Unborn, o)
         /\ \A t \in DOMAIN o.writes : trades[t] = NoTrade => t \in FreshTrade
  <1>1. CASE Creates(r, row, FreshTrade, o)
    <2>1. FreshTrade \subseteq Unborn
      BY DEF FreshTrade, Unborn
    <2>2. Creates(r, row, Unborn, o)
      BY <1>1, <2>1 DEF Creates, CreateTrade
    <2>3. DOMAIN o.writes \subseteq FreshTrade
      <3>1. ASSUME NEW u, o = Outcome(row, Nothing, Nothing, FALSE,
                                      Told("TRADE_EXISTS", u, trades[u].status))
            PROVE  DOMAIN o.writes = {}
        BY <3>1 DEF Outcome, Nothing
      <3>2. ASSUME NEW u \in FreshTrade, NEW new,
                   o = Outcome(row, Just(u, new), Just(u, "created"), FALSE,
                               Told("TRADE_CREATED", u, "PENDING"))
            PROVE  DOMAIN o.writes = {u}
        BY <3>2 DEF Outcome, Just
      <3>3. QED BY <1>1, <3>1, <3>2, ZenonT(40) DEF Creates, CreateTrade
    <2>4. QED BY <2>2, <2>3 DEF Chooses
  <1>2. CASE Edits(r, row, o)
    <2>1. ASSUME NEW new, o = Outcome(new, Nothing, Nothing, FALSE, NoResult)
          PROVE  DOMAIN o.writes = {}
      BY <2>1 DEF Outcome, Nothing
    <2>2. DOMAIN o.writes = {}
      BY <1>2, <2>1 DEF Edits, ChangeProduct
    <2>3. QED BY <1>2, <2>2 DEF Chooses
  <1>3. CASE Moves(r, row, o)
    <2>1. r.op \in TradeAction
      BY <1>3 DEF Moves, Accept, Reject, Cancel, Confirm, TradeAction
    <2>2. trades[r.trade] # NoTrade
      BY <2>1 DEF Ready
    <2>3. \A t \in InStatus(trades[r.trade].product, {"PENDING"}) : trades[t] # NoTrade
      BY NothingIsNone DEF InStatus
    <2>4. \A t \in DOMAIN o.writes : trades[t] # NoTrade
      <3>1. CASE o \in Accept(r, row)
        <4>1. DOMAIN o.writes
                = (InStatus(trades[r.trade].product, {"PENDING"}) \ {r.trade}) \cup {r.trade}
          BY <3>1 DEF Accept, Outcome
        <4>2. QED BY <2>2, <2>3, <4>1
      <3>2. CASE o \in Reject(r, row)
        <4>1. DOMAIN o.writes = {r.trade}
          BY <3>2 DEF Reject, Outcome, Just
        <4>2. QED BY <2>2, <4>1
      <3>3. CASE o \in Cancel(r, row)
        <4>1. DOMAIN o.writes = {r.trade}
          BY <3>3 DEF Cancel, Outcome, Just
        <4>2. QED BY <2>2, <4>1
      <3>4. CASE o \in Confirm(r, row)
        <4>1. DOMAIN o.writes \subseteq {r.trade}
          BY <3>4 DEF Confirm, Outcome, Just, Nothing
        <4>2. QED BY <2>2, <4>1
      <3>5. QED BY <1>3, <3>1, <3>2, <3>3, <3>4 DEF Moves
    <2>5. QED BY <1>3, <2>4 DEF Chooses
  <1>4. QED BY <1>1, <1>2, <1>3 DEF Chooses

LEMMA KeyedIds ==
  ASSUME NEW r \in Asked, Keyed(r)
  PROVE  /\ IdOf(r) \in Abs!CommandId /\ LockId(IdOf(r)) \in KeyLocks
         /\ r.key \in Key /\ r.op \in Abs!Operation
  <1>1. r.actor \in User /\ r.key \in Key /\ r.op \in Abs!Operation
    BY Requests DEF Keyed, TradeAction, Abs!Operation
  <1>2. IdOf(r) \in Abs!CommandId
    BY <1>1 DEF IdOf, Abs!CommandId
  <1>3. QED BY <1>1, <1>2 DEF KeyLocks

-----------------------------------------------------------------------------
(* What a step of one worker leaves the others. *)

LEMMA Phases ==
  ASSUME TxOK, NEW w \in Worker
  PROVE  /\ tx[w].pc \in {"key", "ledger", "find", "lock", "insert"} => tx[w] \in Early
         /\ tx[w].pc = "work" => tx[w] \in Working
         /\ tx[w].pc = "commit" => Committing(tx[w])
         /\ tx[w].pc \in {"idle", "key", "ledger", "find", "lock", "insert", "work", "commit"}
         /\ tx[w].pc # "idle" => tx[w].req \in Asked
  <1>1. CASE tx[w] = Idle
    BY <1>1 DEF Idle
  <1>2. CASE tx[w] \in Early
    BY <1>2 DEF Early
  <1>3. CASE tx[w] \in Working
    BY <1>3 DEF Working
  <1>4. CASE Committing(tx[w])
    <2>1. tx[w].pc = "commit"
      BY <1>4 DEF Committing
    <2>2. QED BY <1>4, <2>1 DEF Committing
  <1>5. QED BY <1>1, <1>2, <1>3, <1>4 DEF TxOK

LEMMA Readiness ==
  ASSUME TxOK, NEW w \in Worker, Knows(w), tx[w].pc \in {"work", "commit"}
  PROVE  Ready(tx[w].req)
  BY Phases DEF Knows, Ready

LEMMA OthersServe ==
  ASSUME TablesOK, TxOK, NEW v \in Worker, Holds(v), Knows(v), tx'[v] = tx[v],
         \A p \in Product : rowLock[p] = v => rowLock'[p] = v,
         \A l \in KeyLocks : keyLock[l] = v => keyLock'[l] = v,
         \A t \in Trade : /\ trades[t] # NoTrade =>
                               trades'[t] # NoTrade /\ trades'[t].product = trades[t].product
                          /\ trades[t].status = "COMPLETED" => trades'[t] = trades[t],
         tx[v].pc \in {"work", "commit"} =>
           /\ products'[Target(tx[v].req)] = products[Target(tx[v].req)]
           /\ \A t \in Trade : trades'[t] # trades[t] =>
                trades'[t].product # Target(tx[v].req),
         tx[v].pc = "commit" =>
           \A t \in DOMAIN tx[v].out.writes : trades[t] = NoTrade => trades'[t] = NoTrade,
         Keyed(tx[v].req) /\ tx[v].pc \in {"find", "lock", "work", "commit"} =>
           ledger'[IdOf(tx[v].req)] = ledger[IdOf(tx[v].req)]
  PROVE  Holds(v)' /\ Knows(v)'
  <1>1. PICK r : r = tx[v].req
    OBVIOUS
  <1>2. ASSUME tx[v].pc \in {"work", "commit"}
        PROVE  Target(r) \in Product /\ Target(r)' = Target(r)
    <2>1. Ready(r) /\ r \in Asked
      BY <1>1, <1>2, Readiness, Phases
    <2>2. Target(r) \in Product
      BY <2>1, Aims
    <2>3. r.op \in TradeAction => r.trade \in Trade
      BY <2>1, Requests DEF TradeAction, ProductAction
    <2>4. Target(r)' = Target(r)
      BY <2>1, <2>3 DEF Target, Ready
    <2>5. QED BY <2>2, <2>4
  <1>3. Holds(v)'
    <2>1. ASSUME tx[v].pc \in {"ledger", "find", "lock", "work", "commit"}, Keyed(r)
          PROVE  keyLock'[LockId(IdOf(r))] = v
      <3>1. r \in Asked
        BY <1>1, <2>1, Phases
      <3>2. QED BY <1>1, <2>1, <3>1, KeyedIds DEF Holds
    <2>2. QED BY <1>1, <1>2, <2>1 DEF Holds
  <1>4. Knows(v)'
    <2>1. ASSUME tx[v].pc \in {"lock", "insert"}
          PROVE  r.op \in TradeAction \/ r.op = "review.create" => r.trade \in Trade
      BY <1>1, <2>1, Phases, Requests DEF TradeAction, ProductAction
    <2>2. ASSUME tx[v].pc \in {"work", "commit"}
          PROVE  r.op \in TradeAction => r.trade \in Trade
      BY <1>1, <2>2, Phases, Requests DEF TradeAction, ProductAction
    <2>3. ASSUME tx[v].pc = "commit"
          PROVE  Decides(tx[v].req, tx[v].out)'
      <3>1. PICK o, p : o = tx[v].out /\ p = Target(r)
        OBVIOUS
      <3>2. Ready(r) /\ Decides(r, o)
        BY <1>1, <2>3, <3>1, Readiness DEF Knows
      <3>3. \A t \in Trade : trades[t] # NoTrade /\ trades[t].product = p => trades'[t] = trades[t]
        BY <1>1, <2>3, <3>1
      <3>4. Decides(r, o)'
        BY <1>1, <2>3, <3>1, <3>2, <3>3, DecisionsStand
      <3>5. o = tx'[v].out /\ r = tx'[v].req
        BY <1>1, <3>1
      <3>6. QED BY <3>4, <3>5 DEF Decides
    <2>4. QED BY <1>1, <1>2, <2>1, <2>2, <2>3 DEF Knows
  <1>5. QED BY <1>3, <1>4

LEMMA ReleaseOthers ==
  ASSUME TablesOK, NEW w \in Worker, NEW v \in Worker, v # w, Release(w)
  PROVE  /\ \A p \in Product : rowLock[p] = v => rowLock'[p] = v
         /\ \A l \in KeyLocks : keyLock[l] = v => keyLock'[l] = v
  BY DEF Release

-----------------------------------------------------------------------------
(* The invariant holds, action by action. *)

QuietTx(x) == x = Idle \/ x \in Early \/ x \in Working

LEMMA QuietStep ==
  ASSUME IInv, NEW w \in Worker, UNCHANGED tables, UNCHANGED caught,
         IsTable(keyLock, KeyLocks)', IsTable(rowLock, Product)', IsTable(sent, Request)',
         IsTable(replies, Request)', IsTable(tx, Worker)',
         \A v \in Worker : v # w =>
           /\ tx'[v] = tx[v]
           /\ \A p \in Product : rowLock[p] = v => rowLock'[p] = v
           /\ \A l \in KeyLocks : keyLock[l] = v => keyLock'[l] = v,
         QuietTx(tx'[w]), Holds(w)', Knows(w)',
         RepliesAreResults', RepliesAreDurable'
  PROVE  IInv'
  <1>1. TablesOK'
    BY DEF IInv, TablesOK, IsTable, tables
  <1>2. tx'[w].pc # "commit"
    BY DEF QuietTx, Idle, Early, Working
  <1>3. TxOK'
    <2>1. \A v \in Worker : v # w => (tx'[v] = Idle \/ tx'[v] \in Early \/ tx'[v] \in Working
                                      \/ Committing(tx'[v]))
      BY DEF IInv, TxOK
    <2>2. \A v \in Worker : tx'[v] = Idle \/ tx'[v] \in Early \/ tx'[v] \in Working
                            \/ Committing(tx'[v])
      BY <2>1 DEF QuietTx
    <2>3. QED BY <2>2 DEF TxOK
  <1>4. Serving'
    <2>1. ASSUME NEW v \in Worker, v # w
          PROVE  Holds(v)' /\ Knows(v)'
      BY <2>1, OthersServe DEF IInv, Serving, tables
    <2>2. QED BY <2>1 DEF Serving
  <1>5. Apart'
    BY <1>2 DEF IInv, Apart, tables
  <1>6. Deals'
    BY DEF IInv, Deals, InStatus, tables
  <1>7. LocksSuffice'
    BY DEF IInv, LocksSuffice
  <1>8. QED BY <1>1, <1>3, <1>4, <1>5, <1>6, <1>7 DEF IInv

LEMMA RepliesKept ==
  ASSUME IInv, UNCHANGED <<replies, ledger>>
  PROVE  IsTable(replies, Request)' /\ RepliesAreResults' /\ RepliesAreDurable'
  BY DEF IInv, TablesOK, IsTable, RepliesAreResults, RepliesAreDurable

LEMMA BeginKeeps ==
  ASSUME IInv, NEW w \in Worker, NEW r \in Request, Begin(w, r)
  PROVE  IInv'
  <1>1. r \in Asked
    BY DEF Begin, Asked
  <1>2. /\ IsTable(keyLock, KeyLocks)' /\ IsTable(rowLock, Product)' /\ IsTable(sent, Request)'
        /\ IsTable(tx, Worker)' /\ \A v \in Worker : v # w => tx'[v] = tx[v]
        /\ tx'[w] = [pc |-> IF Keyed(r) THEN "key" ELSE "find", req |-> r, retried |-> FALSE]
    BY DEF IInv, TablesOK, TxOK, IsTable, Begin
  <1>3. QuietTx(tx'[w])
    BY <1>1, <1>2 DEF QuietTx, Early
  <1>4. Holds(w)'
    BY <1>2 DEF Holds
  <1>5. Knows(w)'
    BY <1>2 DEF Knows
  <1>6. UNCHANGED tables /\ UNCHANGED <<caught, keyLock, rowLock, replies, ledger>>
    BY DEF Begin, tables
  <1>7. QED BY <1>2, <1>3, <1>4, <1>5, <1>6, QuietStep, RepliesKept

LEMMA LockKeyKeeps ==
  ASSUME IInv, NEW w \in Worker, LockKey(w)
  PROVE  IInv'
  <1>1. PICK r, l : r = tx[w].req /\ l = LockId(IdOf(r))
    OBVIOUS
  <1>2. tx[w] \in Early
    BY Phases DEF IInv, LockKey
  <1>3. /\ IsTable(keyLock, KeyLocks)' /\ IsTable(rowLock, Product)' /\ IsTable(sent, Request)'
        /\ IsTable(tx, Worker)' /\ \A v \in Worker : v # w => tx'[v] = tx[v]
        /\ tx'[w] = [tx[w] EXCEPT !.pc = "ledger"]
    BY DEF IInv, TablesOK, TxOK, IsTable, LockKey, Enter
  <1>4. tx'[w] \in Early /\ tx'[w].pc = "ledger" /\ tx'[w].req = r
    BY <1>1, <1>2, <1>3 DEF Early
  <1>5. \A v \in Worker : \A m \in KeyLocks : v # w /\ keyLock[m] = v => keyLock'[m] = v
    BY <1>1, RequestAssumption DEF LockKey, IInv, TablesOK, IsTable, Free
  <1>6. Keyed(r) => keyLock'[l] = w
    <2>1. Keyed(r) => l \in KeyLocks
      BY <1>1, <1>2, KeyedIds DEF Early
    <2>2. QED BY <1>1, <2>1 DEF LockKey, IInv, TablesOK, IsTable
  <1>7. Holds(w)'
    BY <1>1, <1>4, <1>6 DEF Holds
  <1>8. Knows(w)'
    BY <1>4 DEF Knows
  <1>9. UNCHANGED tables /\ UNCHANGED <<caught, rowLock, replies, ledger>>
    BY DEF LockKey, tables
  <1>10. QED BY <1>3, <1>4, <1>5, <1>7, <1>8, <1>9, QuietStep, RepliesKept DEF QuietTx

(* A worker that takes no lock and reads something. *)
LEMMA EnterKeeps ==
  ASSUME IInv, NEW w \in Worker, NEW pc \in {"find", "lock", "insert"},
         tx[w].pc \in {"ledger", "find"},
         Enter(w, pc), UNCHANGED <<tables, keyLock, rowLock, sent, replies, caught>>,
         Keyed(tx[w].req) => ledger[IdOf(tx[w].req)] = NoResult,
         pc = "lock" =>
           /\ tx[w].req.op # "review.create"
           /\ tx[w].req.op \in TradeAction => trades[tx[w].req.trade] # NoTrade,
         pc = "insert" =>
           /\ tx[w].req.op = "review.create"
           /\ trades[tx[w].req.trade].status = "COMPLETED"
           /\ trades[tx[w].req.trade].buyer = tx[w].req.actor
  PROVE  IInv'
  <1>1. PICK r : r = tx[w].req
    OBVIOUS
  <1>2. tx[w] \in Early
    BY Phases DEF IInv
  <1>3. /\ IsTable(keyLock, KeyLocks)' /\ IsTable(rowLock, Product)' /\ IsTable(sent, Request)'
        /\ IsTable(tx, Worker)' /\ \A v \in Worker : v # w => tx'[v] = tx[v]
        /\ tx'[w] = [tx[w] EXCEPT !.pc = pc]
    BY DEF IInv, TablesOK, TxOK, IsTable, Enter
  <1>4. tx'[w] \in Early /\ tx'[w].pc = pc /\ tx'[w].req = r
    BY <1>1, <1>2, <1>3 DEF Early
  <1>5. Holds(w)'
    BY <1>1, <1>4 DEF Holds, IInv, Serving
  <1>6. Knows(w)'
    BY <1>1, <1>4 DEF Knows, tables
  <1>7. QED BY <1>3, <1>4, <1>5, <1>6, QuietStep, RepliesKept DEF QuietTx, tables

LEMMA MissKeeps ==
  ASSUME IInv, NEW w \in Worker, Miss(w)
  PROVE  IInv'
  BY EnterKeeps DEF Miss

LEMMA FindKeeps ==
  ASSUME IInv, NEW w \in Worker, Find(w)
  PROVE  IInv'
  <1>1. PICK pc : pc = IF tx[w].req.op = "review.create" THEN "insert" ELSE "lock"
    OBVIOUS
  <1>2. Keyed(tx[w].req) => ledger[IdOf(tx[w].req)] = NoResult
    BY DEF IInv, Serving, Knows, Find
  <1>3. Enter(w, pc) /\ UNCHANGED <<tables, keyLock, rowLock, sent, replies, caught>>
    BY <1>1 DEF Find
  <1>4. QED BY <1>1, <1>2, <1>3, EnterKeeps DEF Find, Found

LEMMA LockProductKeeps ==
  ASSUME IInv, NEW w \in Worker, LockProduct(w)
  PROVE  IInv'
  <1>1. PICK r, p : r = tx[w].req /\ p = Target(r)
    OBVIOUS
  <1>2. tx[w] \in Early /\ r \in Asked
    BY <1>1, Phases DEF IInv, LockProduct
  <1>3. Ready(r)
    BY <1>1, <1>2 DEF IInv, Serving, Knows, LockProduct, Ready
  <1>4. p \in Product /\ products[p] \in Row
    BY <1>1, <1>3, Aims DEF IInv
  <1>5. /\ IsTable(keyLock, KeyLocks)' /\ IsTable(rowLock, Product)' /\ IsTable(sent, Request)'
        /\ IsTable(tx, Worker)' /\ \A v \in Worker : v # w => tx'[v] = tx[v]
        /\ tx'[w] = [pc |-> "work", req |-> r, retried |-> tx[w].retried, row |-> products[p]]
    BY <1>1 DEF IInv, TablesOK, TxOK, IsTable, LockProduct
  <1>6. tx'[w] \in Working /\ tx'[w].pc = "work" /\ tx'[w].req = r /\ tx'[w].row = products[p]
    BY <1>2, <1>4, <1>5 DEF Early, Working
  <1>7. \A v \in Worker : \A q \in Product : v # w /\ rowLock[q] = v => rowLock'[q] = v
    BY <1>1, RequestAssumption DEF LockProduct, IInv, TablesOK, IsTable, Free
  <1>8. rowLock'[p] = w
    BY <1>1, <1>4 DEF LockProduct, IInv, TablesOK, IsTable
  <1>9. UNCHANGED tables /\ UNCHANGED <<caught, keyLock, replies, ledger, trades, products>>
    BY DEF LockProduct, tables
  <1>10. Target(r)' = p
    BY <1>1, <1>9 DEF Target
  <1>11. Holds(w)'
    BY <1>1, <1>6, <1>8, <1>9, <1>10 DEF Holds, IInv, Serving, LockProduct
  <1>12. Knows(w)'
    BY <1>1, <1>3, <1>6, <1>9, <1>10 DEF Knows, IInv, Serving, LockProduct, Ready
  <1>13. QED BY <1>5, <1>6, <1>7, <1>9, <1>11, <1>12, QuietStep, RepliesKept DEF QuietTx

(* A transaction ends, and its locks with it. *)
LEMMA EndKeeps ==
  ASSUME IInv, NEW w \in Worker, Release(w), tx' = [tx EXCEPT ![w] = Idle],
         UNCHANGED <<tables, sent, caught>>,
         IsTable(replies, Request)', RepliesAreResults', RepliesAreDurable'
  PROVE  IInv'
  <1>1. /\ IsTable(keyLock, KeyLocks)' /\ IsTable(rowLock, Product)' /\ IsTable(sent, Request)'
        /\ IsTable(tx, Worker)' /\ \A v \in Worker : v # w => tx'[v] = tx[v]
        /\ tx'[w] = Idle
    BY DEF IInv, TablesOK, TxOK, IsTable, Release
  <1>2. Holds(w)' /\ Knows(w)'
    BY <1>1 DEF Holds, Knows, Idle
  <1>3. \A v \in Worker : v # w =>
          /\ \A p \in Product : rowLock[p] = v => rowLock'[p] = v
          /\ \A l \in KeyLocks : keyLock[l] = v => keyLock'[l] = v
    BY ReleaseOthers DEF IInv
  <1>4. QED BY <1>1, <1>2, <1>3, QuietStep DEF QuietTx

LEMMA RollBackKeeps ==
  ASSUME IInv, NEW w \in Worker, RollBack(w, Idle), UNCHANGED caught
  PROVE  IInv'
  BY EndKeeps, RepliesKept DEF RollBack, tables

LEMMA ReplayKeeps ==
  ASSUME IInv, NEW w \in Worker, Replay(w)
  PROVE  IInv'
  <1>1. PICK r, x : r = tx[w].req /\ x = ledger[IdOf(r)]
    OBVIOUS
  <1>2. x # NoResult /\ replies' = [replies EXCEPT ![r] = @ \cup {x}] /\ UNCHANGED ledger
    BY <1>1 DEF Replay, tables
  <1>3. /\ IsTable(replies, Request)'
        /\ \A q \in Request : replies'[q] = IF q = r THEN replies[q] \cup {x} ELSE replies[q]
    BY <1>2 DEF IInv, TablesOK, IsTable
  <1>4. RepliesAreResults' /\ RepliesAreDurable'
    BY <1>1, <1>2, <1>3 DEF IInv, RepliesAreResults, RepliesAreDurable
  <1>5. QED BY <1>3, <1>4, EndKeeps DEF Replay

LEMMA InsertReviewKeeps ==
  ASSUME IInv, NEW w \in Worker, InsertReview(w)
  PROVE  IInv'
  <1>1. TablesOK' /\ IsTable(tx, Worker)' /\ Deals' /\ LocksSuffice'
    BY DEF IInv, TablesOK, TxOK, IsTable, Deals, InStatus, LocksSuffice, InsertReview
  <1>2. tx'[w] = Idle /\ \A v \in Worker : v # w => tx'[v] = tx[v]
    BY DEF IInv, TxOK, IsTable, InsertReview
  <1>3. TxOK'
    BY <1>1, <1>2 DEF IInv, TxOK
  <1>4. Serving'
    <2>1. Holds(w)' /\ Knows(w)'
      BY <1>2 DEF Holds, Knows, Idle
    <2>2. ASSUME NEW v \in Worker, v # w
          PROVE  Holds(v)' /\ Knows(v)'
      BY <1>2, <2>2, OthersServe DEF IInv, Serving, InsertReview
    <2>3. QED BY <2>1, <2>2 DEF Serving
  <1>5. Apart'
    BY <1>2 DEF IInv, Apart, Idle, InsertReview
  <1>6. RepliesAreResults' /\ RepliesAreDurable'
    BY RepliesKept DEF InsertReview
  <1>7. QED BY <1>1, <1>3, <1>4, <1>5, <1>6 DEF IInv

LEMMA WorkKeeps ==
  ASSUME IInv, NEW w \in Worker, Work(w)
  PROVE  IInv'
  <1>1. PICK r, row : r = tx[w].req /\ row = tx[w].row
    OBVIOUS
  <1>2. PICK o : Chooses(r, row, FreshTrade, o) /\ Write(w, o)
    BY <1>1, WorkChooses
  <1>3. /\ Ready(r) /\ row = products[Target(r)]
        /\ Keyed(r) => ledger[IdOf(r)] = NoResult
    BY <1>1, Readiness DEF IInv, Serving, Knows, Work
  <1>4. /\ Chooses(r, row, Unborn, o)
        /\ \A t \in DOMAIN o.writes : trades[t] = NoTrade => t \in FreshTrade
    BY <1>2, <1>3, FreshWrites DEF IInv
  <1>5. Refusals(r, row, o) = {}
    BY <1>3, <1>4, NothingRefused DEF IInv
  <1>6. /\ tx' = [tx EXCEPT ![w] = [pc |-> "commit", req |-> @.req, out |-> o]]
        /\ UNCHANGED tables /\ UNCHANGED <<keyLock, rowLock, sent, replies, caught>>
    BY <1>1, <1>2, <1>5 DEF Write
  <1>7. /\ IsTable(tx, Worker)' /\ \A v \in Worker : v # w => tx'[v] = tx[v]
        /\ tx'[w] = [pc |-> "commit", req |-> r, out |-> o]
    BY <1>1, <1>6 DEF IInv, TxOK, IsTable
  <1>8. TablesOK' /\ Deals' /\ LocksSuffice'
    BY <1>6 DEF IInv, TablesOK, IsTable, Deals, InStatus, LocksSuffice, tables
  <1>9. TxOK'
    BY <1>3, <1>7 DEF IInv, TxOK, Committing, Ready
  <1>10. Serving'
    <2>1. Target(r)' = Target(r)
      BY <1>6 DEF Target, tables
    <2>2. Holds(w)'
      BY <1>1, <1>6, <1>7, <2>1 DEF IInv, Serving, Holds, Work
    <2>3. Decides(r, o)'
      BY <1>3, <1>4, <1>6, DecisionsStand DEF IInv, Decides, tables
    <2>4. Decides(tx[w].req, tx[w].out)'
      <3>1. r = tx'[w].req /\ o = tx'[w].out
        BY <1>7
      <3>2. QED BY <2>3, <3>1 DEF Decides
    <2>5. Knows(w)'
      BY <1>3, <1>6, <1>7, <2>1, <2>4 DEF Knows, Ready, tables
    <2>6. ASSUME NEW v \in Worker, v # w
          PROVE  Holds(v)' /\ Knows(v)'
      BY <1>6, <1>7, <2>6, OthersServe DEF IInv, Serving, tables
    <2>7. QED BY <2>2, <2>5, <2>6 DEF Serving
  <1>11. Apart'
    <2>1. ASSUME NEW v \in Worker, v # w, tx[v].pc = "commit",
                 NEW t \in DOMAIN tx[v].out.writes, t \in DOMAIN o.writes
          PROVE  trades[t] # NoTrade
      BY <1>4, <2>1 DEF FreshTrade
    <2>2. tx'[w].out.writes = o.writes
      BY <1>7
    <2>3. UNCHANGED trades
      BY <1>6 DEF tables
    <2>4. QED BY <1>7, <2>1, <2>2, <2>3 DEF IInv, Apart
  <1>12. RepliesAreResults' /\ RepliesAreDurable'
    BY <1>6, RepliesKept DEF tables
  <1>13. QED BY <1>8, <1>9, <1>10, <1>11, <1>12 DEF IInv

LEMMA PublishKeeps ==
  ASSUME IInv, NEW r \in Request, Publish(r)
  PROVE  IInv'
  <1>1. PICK q \in Product :
          /\ products[q] = NoProduct
          /\ products' = [products EXCEPT ![q] =
               [seller |-> r.actor, price |-> r.price, status |-> "ON_SALE", version |-> 1]]
    BY DEF Publish
  <1>2. PICK new : new = [seller |-> r.actor, price |-> r.price, status |-> "ON_SALE",
                          version |-> 1]
    OBVIOUS
  <1>3. r.actor \in User /\ r.price \in Price
    BY RequestAssumption DEF Publish
  <1>4. new \in Row /\ new.status = "ON_SALE"
    BY <1>2, <1>3 DEF Row, Abs!ProductStatus
  <1>5. UNCHANGED <<trades, ledger, tradeEvents, productEvents, keyLock, rowLock, tx, replies,
                    caught>> /\ IsTable(sent, Request)'
    BY DEF Publish, IInv, TablesOK, IsTable
  <1>6. TablesOK'
    <2>1. products' \in [Product -> Row \cup {NoProduct}]
      BY <1>1, <1>2, <1>4 DEF IInv, TablesOK
    <2>2. QED BY <1>5, <2>1 DEF IInv, TablesOK, IsTable
  <1>7. \A p \in Product : p # q => products'[p] = products[p]
    BY <1>1 DEF IInv, TablesOK
  <1>8. products'[q] = new /\ products[q].status = "NONE"
    BY <1>1, <1>2, NothingIsNone DEF IInv, TablesOK
  <1>9. TxOK' /\ Apart' /\ LocksSuffice'
    BY <1>5 DEF IInv, TxOK, IsTable, Apart, LocksSuffice
  <1>10. Serving'
    <2>1. ASSUME NEW v \in Worker
          PROVE  Holds(v)' /\ Knows(v)'
      <3>1. ASSUME tx[v].pc \in {"work", "commit"}
            PROVE  products'[Target(tx[v].req)] = products[Target(tx[v].req)]
        <4>1. Ready(tx[v].req)
          BY <3>1, Readiness DEF IInv, Serving
        <4>2. Target(tx[v].req) \in Product
          BY <4>1, Aims DEF IInv
        <4>3. QED BY <1>1, <1>7, <4>1, <4>2 DEF Ready
      <3>2. QED BY <1>5, <3>1, OthersServe DEF IInv, Serving
    <2>2. QED BY <2>1 DEF Serving
  <1>11. Deals'
    <2>1. \A p \in Product : InStatus(p, {"ACCEPTED"})' = InStatus(p, {"ACCEPTED"})
      BY <1>5 DEF InStatus
    <2>2. \A p \in Product : products'[p].status = "RESERVED" <=> products[p].status = "RESERVED"
      BY <1>4, <1>7, <1>8
    <2>3. QED BY <2>1, <2>2 DEF IInv, Deals
  <1>12. RepliesAreResults' /\ RepliesAreDurable'
    BY <1>5, RepliesKept
  <1>13. QED BY <1>6, <1>9, <1>10, <1>11, <1>12 DEF IInv

LEMMA CommitFacts ==
  ASSUME IInv, NEW w \in Worker, NEW answered \in BOOLEAN, Commit(w, answered),
         NEW r, r = tx[w].req, NEW o, o = tx[w].out, NEW p, p = Target(r)
  PROVE  /\ Ready(r) /\ Decides(r, o) /\ Sane(r, o) /\ Apply(r, o)
         /\ p \in Product /\ rowLock[p] = w
         /\ Keyed(r) => /\ ledger[IdOf(r)] = NoResult /\ IdOf(r) \in Abs!CommandId
                        /\ keyLock[LockId(IdOf(r))] = w
         /\ tx' = [tx EXCEPT ![w] = Idle] /\ Release(w) /\ UNCHANGED <<sent, caught>>
         /\ replies' = IF answered THEN [replies EXCEPT ![r] = @ \cup {o.result}] ELSE replies
  <1>1. Ready(r) /\ Decides(r, o) /\ Apply(r, o)
    BY Readiness DEF IInv, Serving, Knows, Commit
  <1>2. p \in Product /\ Sane(r, o)
    BY <1>1, Aims, SaneCommands DEF IInv
  <1>3. rowLock[p] = w
    BY DEF IInv, Serving, Holds, Commit
  <1>4. ASSUME Keyed(r)
        PROVE  /\ ledger[IdOf(r)] = NoResult /\ IdOf(r) \in Abs!CommandId
               /\ keyLock[LockId(IdOf(r))] = w
    BY <1>1, <1>4, KeyedIds DEF IInv, Serving, Holds, Knows, Commit, Ready
  <1>5. QED BY <1>1, <1>2, <1>3, <1>4 DEF Commit

(* What every commit leaves as it was. *)
LEMMA CommitMoves ==
  ASSUME TablesOK, NEW r, NEW o, Sane(r, o), Apply(r, o), NEW p \in Product, p = Target(r)
  PROVE  /\ \A t \in Trade : /\ trades[t] # NoTrade =>
                                  trades'[t] # NoTrade /\ trades'[t].product = trades[t].product
                             /\ trades[t].status = "COMPLETED" => trades'[t] = trades[t]
                             /\ trades'[t] # trades[t] => trades'[t].product = p
         /\ TablesOK' <=> /\ IsTable(keyLock, KeyLocks)' /\ IsTable(rowLock, Product)'
                          /\ IsTable(sent, Request)' /\ IsTable(replies, Request)'
  <1>1. /\ \A q \in Product : products'[q] = IF q = p THEN o.row ELSE products[q]
        /\ \A t \in Trade : trades'[t] = IF t \in DOMAIN o.writes THEN o.writes[t] ELSE trades[t]
    BY Applied
  <1>2. \A t \in Trade : /\ trades[t] # NoTrade =>
                                  trades'[t] # NoTrade /\ trades'[t].product = trades[t].product
                         /\ trades[t].status = "COMPLETED" => trades'[t] = trades[t]
                         /\ trades'[t] # trades[t] => trades'[t].product = p
    BY <1>1, NothingIsNone DEF Sane
  <1>3. products' \in [Product -> Row \cup {NoProduct}]
    BY <1>1 DEF Apply, Sane, TablesOK
  <1>4. trades' \in [Trade -> Abs!TradeRow \cup {NoTrade}]
    BY <1>1 DEF Apply, Sane, TablesOK
  <1>5. IsTable(ledger, Abs!CommandId)'
    BY DEF Apply, TablesOK, IsTable
  <1>6. IsTable(tradeEvents, Trade)'
    BY DEF Apply, TablesOK, IsTable
  <1>7. IsTable(productEvents, Product)'
    BY DEF Apply, TablesOK, IsTable
  <1>8. QED BY <1>2, <1>3, <1>4, <1>5, <1>6, <1>7 DEF TablesOK

LEMMA CommitKeeps ==
  ASSUME IInv, NEW w \in Worker, NEW answered \in BOOLEAN, Commit(w, answered)
  PROVE  IInv'
  <1>1. PICK r, o : r = tx[w].req /\ o = tx[w].out
    OBVIOUS
  <1>2. PICK p : p = Target(r)
    OBVIOUS
  <1>3. /\ Ready(r) /\ Decides(r, o) /\ Sane(r, o) /\ Apply(r, o)
        /\ p \in Product /\ rowLock[p] = w
        /\ Keyed(r) => /\ ledger[IdOf(r)] = NoResult /\ IdOf(r) \in Abs!CommandId
                       /\ keyLock[LockId(IdOf(r))] = w
        /\ tx' = [tx EXCEPT ![w] = Idle] /\ Release(w) /\ UNCHANGED <<sent, caught>>
        /\ replies' = IF answered THEN [replies EXCEPT ![r] = @ \cup {o.result}] ELSE replies
    BY <1>1, <1>2, CommitFacts
  <1>4. tx[w].pc = "commit"
    BY DEF Commit
  <1>5. /\ \A q \in Product : products'[q] = IF q = p THEN o.row ELSE products[q]
        /\ \A t \in Trade : trades'[t] = IF t \in DOMAIN o.writes THEN o.writes[t] ELSE trades[t]
        /\ \A c \in Abs!CommandId :
             ledger'[c] = IF Keyed(r) /\ c = IdOf(r) THEN o.result ELSE ledger[c]
    BY <1>2, <1>3, Applied DEF IInv
  <1>6. \A t \in Trade : /\ trades[t] # NoTrade =>
                              trades'[t] # NoTrade /\ trades'[t].product = trades[t].product
                         /\ trades[t].status = "COMPLETED" => trades'[t] = trades[t]
                         /\ trades'[t] # trades[t] => trades'[t].product = p
    BY <1>2, <1>3, CommitMoves DEF IInv
  <1>7. TablesOK'
    <2>1. IsTable(keyLock, KeyLocks)' /\ IsTable(rowLock, Product)'
      BY <1>3 DEF Release, IsTable
    <2>2. IsTable(sent, Request)' /\ IsTable(replies, Request)'
      BY <1>3 DEF IInv, TablesOK, IsTable
    <2>3. QED BY <1>2, <1>3, <2>1, <2>2, CommitMoves DEF IInv
  <1>8. IsTable(tx, Worker)' /\ tx'[w] = Idle /\ \A v \in Worker : v # w => tx'[v] = tx[v]
    BY <1>3 DEF IInv, TxOK, IsTable
  <1>9. TxOK'
    BY <1>8 DEF IInv, TxOK
  <1>10. ASSUME NEW v \in Worker, v # w
         PROVE  Holds(v)' /\ Knows(v)'
    <2>1. PICK s, x, q : s = tx[v].req /\ x = tx[v].out /\ q = Target(s)
      OBVIOUS
    <2>2. Holds(v) /\ Knows(v) /\ tx'[v] = tx[v]
      BY <1>8, <1>10 DEF IInv, Serving
    <2>3. /\ \A y \in Product : rowLock[y] = v => rowLock'[y] = v
          /\ \A l \in KeyLocks : keyLock[l] = v => keyLock'[l] = v
      BY <1>3, <1>10, ReleaseOthers DEF IInv
    <2>4. ASSUME tx[v].pc \in {"work", "commit"}
          PROVE  products'[q] = products[q] /\ q # p
      <3>1. rowLock[q] = v
        BY <2>1, <2>2, <2>4 DEF Holds
      <3>2. q \in Product
        BY <2>1, <2>2, <2>4, Readiness, Aims DEF IInv
      <3>3. QED BY <1>3, <1>5, <1>10, <3>1, <3>2
    <2>5. ASSUME tx[v].pc = "commit", NEW t \in DOMAIN x.writes, trades[t] = NoTrade
          PROVE  trades'[t] = NoTrade
      <3>1. t \notin DOMAIN o.writes
        BY <1>1, <1>4, <1>10, <2>1, <2>5 DEF IInv, Apart
      <3>2. Sane(s, x)
        BY <2>1, <2>2, <2>5, Readiness, SaneCommands DEF IInv, Knows
      <3>3. QED BY <1>5, <2>5, <3>1, <3>2 DEF Sane
    <2>6. ASSUME Keyed(s), tx[v].pc \in {"find", "lock", "work", "commit"}
          PROVE  ledger'[IdOf(s)] = ledger[IdOf(s)]
      <3>1. keyLock[LockId(IdOf(s))] = v
        BY <2>1, <2>2, <2>6 DEF Holds
      <3>2. IdOf(s) \in Abs!CommandId
        BY <2>1, <2>6, Phases, KeyedIds DEF IInv
      <3>3. ~(Keyed(r) /\ IdOf(s) = IdOf(r))
        BY <1>3, <1>10, <3>1
      <3>4. QED BY <1>5, <3>2, <3>3
    <2>7. QED BY <1>6, <2>1, <2>2, <2>3, <2>4, <2>5, <2>6, OthersServe DEF IInv
  <1>11. Serving'
    <2>1. Holds(w)' /\ Knows(w)'
      BY <1>8 DEF Holds, Knows, Idle
    <2>2. QED BY <1>10, <2>1 DEF Serving
  <1>12. Apart'
    <2>1. ASSUME NEW u \in Worker, NEW v \in Worker, u # v, tx'[u].pc = "commit",
                 tx'[v].pc = "commit",
                 NEW t \in DOMAIN tx'[u].out.writes \cap DOMAIN tx'[v].out.writes
          PROVE  trades'[t] # NoTrade
      <3>1. tx'[u] = tx[u] /\ tx'[v] = tx[v]
        BY <1>8, <2>1 DEF Idle
      <3>2. trades[t] # NoTrade
        BY <2>1, <3>1 DEF IInv, Apart
      <3>3. t \in Trade
        BY <2>1, <3>1, Readiness, SaneCommands DEF IInv, Serving, Knows, Sane
      <3>4. QED BY <1>6, <3>2, <3>3
    <2>2. QED BY <2>1 DEF Apart
  <1>13. Deals'
    BY <1>3, DealsAfter DEF IInv
  <1>14. \A q \in Request : replies'[q] = IF answered /\ q = r THEN replies[q] \cup {o.result}
                                          ELSE replies[q]
    BY <1>3 DEF IInv, TablesOK, IsTable
  <1>15. RepliesAreResults'
    BY <1>3, <1>14 DEF IInv, RepliesAreResults, Sane
  <1>16. RepliesAreDurable'
    <2>1. ASSUME NEW q \in Request, Keyed(q), NEW x \in replies'[q]
          PROVE  ledger'[IdOf(q)] = x
      <3>1. q \in Asked
        BY <2>1, RequestAssumption DEF Asked, Keyed
      <3>2. IdOf(q) \in Abs!CommandId
        BY <2>1, <3>1, KeyedIds
      <3>3. CASE answered /\ q = r /\ x = o.result
        BY <1>5, <2>1, <3>2, <3>3
      <3>4. CASE x \in replies[q]
        <4>1. ledger[IdOf(q)] = x /\ x # NoResult
          BY <2>1, <3>4 DEF IInv, RepliesAreResults, RepliesAreDurable
        <4>2. ~(Keyed(r) /\ IdOf(q) = IdOf(r))
          BY <1>3, <4>1
        <4>3. QED BY <1>5, <3>2, <4>1, <4>2
      <3>5. QED BY <1>14, <2>1, <3>3, <3>4
    <2>2. QED BY <2>1 DEF RepliesAreDurable
  <1>17. LocksSuffice'
    BY <1>3 DEF IInv, LocksSuffice
  <1>18. QED BY <1>7, <1>9, <1>11, <1>12, <1>13, <1>15, <1>16, <1>17 DEF IInv

-----------------------------------------------------------------------------
(* The two theorems of safety. *)

LEMMA Begins ==
  ASSUME Init
  PROVE  IInv
  <1>1. TablesOK
    BY DEF Init, TablesOK, IsTable
  <1>2. \A w \in Worker : tx[w] = Idle /\ tx[w].pc = "idle"
    BY DEF Init, Idle
  <1>3. TxOK
    BY <1>2 DEF Init, TxOK, IsTable
  <1>4. Serving /\ Apart
    BY <1>2 DEF Serving, Holds, Knows, Apart
  <1>5. Deals
    <2>1. \A p \in Product : products[p].status = "NONE" /\ InStatus(p, {"ACCEPTED"}) = {}
      BY NothingIsNone DEF Init, InStatus
    <2>2. QED BY <2>1 DEF Deals
  <1>6. LocksSuffice /\ RepliesAreResults /\ RepliesAreDurable
    BY DEF Init, LocksSuffice, RepliesAreResults, RepliesAreDurable
  <1>7. QED BY <1>1, <1>3, <1>4, <1>5, <1>6 DEF IInv

LEMMA Stutters ==
  ASSUME IInv, UNCHANGED vars
  PROVE  IInv'
  <1>1. Serving'
    BY OthersServe DEF IInv, Serving, vars, tables
  <1>2. TablesOK' /\ TxOK' /\ Apart' /\ Deals' /\ LocksSuffice'
    BY DEF IInv, TablesOK, TxOK, IsTable, Apart, Deals, InStatus, LocksSuffice, vars, tables
  <1>3. RepliesAreResults' /\ RepliesAreDurable'
    BY RepliesKept DEF vars, tables
  <1>4. QED BY <1>1, <1>2, <1>3 DEF IInv

LEMMA Continues ==
  ASSUME IInv, Next
  PROVE  IInv'
  <1>1. ASSUME NEW r \in Request, Publish(r) PROVE IInv'
    BY <1>1, PublishKeeps
  <1>2. ASSUME NEW w \in Worker, NEW r \in Request, Begin(w, r) PROVE IInv'
    BY <1>2, BeginKeeps
  <1>3. ASSUME NEW w \in Worker, Step(w) PROVE IInv'
    BY <1>3, LockKeyKeeps, ReplayKeeps, MissKeeps, FindKeeps, LockProductKeeps, WorkKeeps,
       CommitKeeps, InsertReviewKeeps DEF Step
  <1>4. ASSUME NEW w \in Worker, Refuse(w) PROVE IInv'
    BY <1>4, RollBackKeeps DEF Refuse
  <1>5. ASSUME NEW w \in Worker, Fail(w) PROVE IInv'
    BY <1>5, RollBackKeeps DEF Fail
  <1>6. QED BY <1>1, <1>2, <1>3, <1>4, <1>5 DEF Next

LEMMA Invariance == Spec => []IInv
  <1>1. IInv /\ [Next]_vars => IInv'
    BY Continues, Stutters
  <1>2. QED BY Begins, <1>1, PTL DEF Spec

(* The advisory lock and the Product lock order the commands by themselves: *)
(* no unique index, no version check and no ledger key ever has to refuse a *)
(* write, whatever requests interleave, are retried or fail.                *)
THEOREM TheLocksSuffice == Spec => []LocksSuffice
  BY Invariance, PTL DEF IInv

(* A keyed command that was answered stays in the ledger with the result    *)
(* that was answered, so that every later answer to its id is the same.     *)
THEOREM AnswersAreDurable == Spec => []RepliesAreDurable
  BY Invariance, PTL DEF IInv

-----------------------------------------------------------------------------
(* Each commit is a command of Marketplace. *)

AbsProducts == [p \in Product |-> Shown(products[p])]

LEMMA ShownRows ==
  ASSUME NEW row \in Row
  PROVE  /\ Shown(row) \in Abs!ProductRow
         /\ Shown(row).seller = row.seller /\ Shown(row).price = row.price
         /\ Shown(row).status = row.status /\ row.status # "NONE"
  BY NothingIsNone DEF Shown, Row, Abs!ProductRow, Abs!ProductStatus

LEMMA SameShown ==
  ASSUME NEW x \in Abs!ProductRow, NEW y \in Abs!ProductRow,
         x.seller = y.seller, x.price = y.price, x.status = y.status
  PROVE  x = y
  BY DEF Abs!ProductRow

LEMMA ShownBumped ==
  ASSUME NEW row \in Row, NEW s \in Abs!ProductStatus
  PROVE  Shown(Bumped(row, s)) = [Shown(row) EXCEPT !.status = s]
  <1>1. PICK x, y : x = Shown(Bumped(row, s)) /\ y = [Shown(row) EXCEPT !.status = s]
    OBVIOUS
  <1>2. /\ Bumped(row, s) \in Row /\ Bumped(row, s).seller = row.seller
        /\ Bumped(row, s).price = row.price /\ Bumped(row, s).status = s
    BY BumpedRows
  <1>3. x \in Abs!ProductRow /\ x.seller = row.seller /\ x.price = row.price /\ x.status = s
    BY <1>1, <1>2, ShownRows
  <1>4. y \in Abs!ProductRow /\ y.seller = row.seller /\ y.price = row.price /\ y.status = s
    BY <1>1, ShownRows DEF Abs!ProductRow
  <1>5. x = y
    BY <1>3, <1>4, SameShown
  <1>6. QED BY <1>1, <1>5

LEMMA ShownPriced ==
  ASSUME NEW row \in Row, NEW price \in Price
  PROVE  Shown([Bumped(row, row.status) EXCEPT !.price = price]) = [Shown(row) EXCEPT !.price = price]
  <1>1. PICK x, y, new : /\ new = [Bumped(row, row.status) EXCEPT !.price = price]
                         /\ x = Shown(new) /\ y = [Shown(row) EXCEPT !.price = price]
    OBVIOUS
  <1>2. row.status \in Abs!ProductStatus
    BY DEF Row
  <1>3. new \in Row /\ new.seller = row.seller /\ new.price = price /\ new.status = row.status
    BY <1>1, <1>2, BumpedRows DEF Row
  <1>4. x \in Abs!ProductRow /\ x.seller = row.seller /\ x.price = price /\ x.status = row.status
    BY <1>1, <1>3, ShownRows
  <1>5. /\ y \in Abs!ProductRow /\ y.seller = row.seller /\ y.price = price
        /\ y.status = row.status
    BY <1>1, ShownRows DEF Abs!ProductRow
  <1>6. x = y
    BY <1>4, <1>5, SameShown
  <1>7. QED BY <1>1, <1>6

LEMMA AbsRows ==
  ASSUME TablesOK, NEW p \in Product, products[p] \in Row
  PROVE  /\ AbsProducts[p].seller = products[p].seller
         /\ AbsProducts[p].price = products[p].price
         /\ AbsProducts[p].status = products[p].status /\ AbsProducts[p].status # "NONE"
         /\ AbsProducts[p] \in Abs!ProductRow
  BY ShownRows DEF AbsProducts

LEMMA AbsSameProducts ==
  ASSUME UNCHANGED products
  PROVE  UNCHANGED AbsProducts
  BY DEF AbsProducts

LEMMA AbsProductMoves ==
  ASSUME TablesOK, NEW p \in Product, products[p] \in Row, NEW s \in Abs!ProductStatus,
         products' = [products EXCEPT ![p] = Bumped(products[p], s)]
  PROVE  AbsProducts' = [AbsProducts EXCEPT ![p].status = s]
  <1>1. \A q \in Product : products'[q] = IF q = p THEN Bumped(products[p], s) ELSE products[q]
    BY DEF TablesOK
  <1>2. Shown(products'[p]) = [Shown(products[p]) EXCEPT !.status = s]
    BY <1>1, ShownBumped
  <1>3. AbsProducts' = [q \in Product |-> Shown(products'[q])]
    BY DEF AbsProducts, Shown
  <1>4. \A q \in Product : AbsProducts[q] = Shown(products[q])
    BY DEF AbsProducts
  <1>5. PICK f : f = [AbsProducts EXCEPT ![p].status = s]
    OBVIOUS
  <1>6. /\ f = [q \in Product |-> f[q]]
        /\ \A q \in Product : f[q] = IF q = p THEN [AbsProducts[p] EXCEPT !.status = s]
                                     ELSE AbsProducts[q]
    BY <1>5 DEF AbsProducts
  <1>7. \A q \in Product : f[q] = Shown(products'[q])
    BY <1>1, <1>2, <1>4, <1>6
  <1>8. QED BY <1>3, <1>5, <1>6, <1>7

LEMMA Recording ==
  ASSUME NEW r, Ready(r), r.op \in Abs!Operation, NEW o, Apply(r, o),
         NEW code, NEW t, NEW status, o.result = Told(code, t, status),
         Keyed(r) => ledger[IdOf(r)] = NoResult
  PROVE  /\ r.actor \in User /\ r.key \in Abs!RequestKey
         /\ Abs!Fresh(r.actor, r.op, r.key)
         /\ Abs!Record(r.actor, r.op, r.key, code, t, status)
         /\ UNCHANGED reviews
  <1>1. r.actor \in User /\ r.key \in Abs!RequestKey /\ "key" \in DOMAIN r
    BY Requests DEF Ready, Abs!RequestKey, Abs!Operation, ProductAction
  <1>2. Keyed(r) <=> r.key # NoKey
    BY <1>1 DEF Keyed
  <1>3. IdOf(r) = [actor |-> r.actor, op |-> r.op, key |-> r.key]
    BY DEF IdOf
  <1>4. Abs!Fresh(r.actor, r.op, r.key)
    BY <1>2, <1>3 DEF Abs!Fresh, Abs!NoResult, NoResult
  <1>5. ledger' = IF Keyed(r) THEN [ledger EXCEPT ![IdOf(r)] = o.result] ELSE ledger
    BY DEF Apply
  <1>6. Abs!Record(r.actor, r.op, r.key, code, t, status)
    BY <1>2, <1>3, <1>5 DEF Abs!Record, Told
  <1>7. QED BY <1>1, <1>4, <1>6 DEF Apply

LEMMA AppliedNothing ==
  ASSUME TablesOK, NEW r, NEW o, Apply(r, o)
  PROVE  /\ DOMAIN o.writes = {} => UNCHANGED trades
         /\ DOMAIN o.log = {} => UNCHANGED tradeEvents
         /\ o.said = FALSE => UNCHANGED productEvents
         /\ o.row = products[Target(r)] => UNCHANGED products
  BY DEF TablesOK, IsTable, Apply

LEMMA AppliedOne ==
  ASSUME TablesOK, NEW r, NEW o, Apply(r, o), NEW t \in Trade, NEW x, o.writes = Just(t, x)
  PROVE  trades' = [u \in Trade |-> IF u = t THEN x ELSE trades[u]]
  BY DEF TablesOK, Apply, Just

LEMMA LoggedOne ==
  ASSUME TablesOK, NEW r, NEW o, Apply(r, o), NEW t \in Trade, NEW e, o.log = Just(t, e)
  PROVE  tradeEvents' = Abs!Logged({t}, e)
  BY DEF Apply, Just, Abs!Logged

LEMMA MovedOne ==
  ASSUME TablesOK, NEW r, NEW o, Apply(r, o), NEW t \in Trade, NEW s,
         o.writes = Just(t, [trades[t] EXCEPT !.status = s])
  PROVE  trades' = Abs!Moved({t}, s)
  BY AppliedOne DEF Abs!Moved

(* The product moves to another status on behalf of a trade. *)
LEMMA ProductMoves ==
  ASSUME TablesOK, NEW r, Ready(r), NEW o, Apply(r, o), NEW p, p = Target(r),
         NEW s \in Abs!ProductStatus, o.row = Bumped(products[p], s),
         o.said, NEW t, o.result.trade = t
  PROVE  Abs!MoveProduct(p, s, t)
  <1>1. p \in Product /\ products[p] \in Row
    BY Aims
  <1>2. products' = [products EXCEPT ![p] = Bumped(products[p], s)]
    BY DEF Apply
  <1>3. AbsProducts' = [AbsProducts EXCEPT ![p].status = s]
    BY <1>1, <1>2, AbsProductMoves
  <1>4. o.row.status = s
    BY <1>1, BumpedRows
  <1>5. productEvents' = [productEvents EXCEPT ![p] = Append(@, [status |-> s, trade |-> t])]
    BY <1>4 DEF Apply
  <1>6. QED BY <1>3, <1>5 DEF Abs!MoveProduct, AbsProducts

AbsTables == <<AbsProducts, trades, reviews, ledger, tradeEvents, productEvents>>

AbsStep ==
  \E a \in User :
    \/ \E p \in Product : Abs!ProductCommand(a, p)
    \/ \E t \in Trade, k \in Abs!RequestKey : Abs!TradeCommand(a, t, k)
    \/ \E t \in Trade : Abs!Review(a, t)

LEMMA AbsNext == Abs!Next <=> AbsStep
  BY DEF AbsStep, Abs!Next

LEMMA CreationSteps ==
  ASSUME TablesOK, NEW r, Ready(r), NEW o, Apply(r, o), NEW row, row = products[Target(r)],
         Keyed(r) => ledger[IdOf(r)] = NoResult, Creates(r, row, Unborn, o)
  PROVE  AbsStep
  <1>1. r.op = "trade.create"
    BY DEF Creates, CreateTrade
  <1>2. PICK p, a, k, conv : p = Target(r) /\ a = r.actor /\ k = r.key /\ conv = r.conv
    OBVIOUS
  <1>3. p = r.product /\ p \in Product /\ row \in Row /\ row = products[p]
    BY <1>1, <1>2, Aims DEF TradeAction, ProductAction
  <1>4. conv \in Abs!ConversationField
    BY <1>1, <1>2, Requests DEF Ready, TradeAction, ProductAction, Abs!ConversationField
  <1>5. r.op \in Abs!Operation
    BY <1>1 DEF Abs!Operation
  <1>6. Intent(p, a) = Abs!ActiveIntent(p, a)
    BY DEF Intent, InStatus, Abs!ActiveIntent, Abs!TradesOf
  <1>7. SUFFICES \E t \in Trade : /\ a \in User /\ k \in Abs!RequestKey
                                  /\ Abs!CreateTrade(a, p, t, k, conv) \/ Abs!ReadIntent(a, p, t, k, conv)
    BY <1>3, <1>4 DEF AbsStep, Abs!TradeCommand
  <1>8. ASSUME NEW t \in Intent(p, a), conv \in {"absent", trades[t].conversation},
               o = Outcome(row, Nothing, Nothing, FALSE, Told("TRADE_EXISTS", t, trades[t].status))
        PROVE  /\ a \in User /\ k \in Abs!RequestKey /\ t \in Trade
               /\ Abs!ReadIntent(a, p, t, k, conv)
    <2>1. /\ o.row = row /\ DOMAIN o.writes = {} /\ DOMAIN o.log = {} /\ o.said = FALSE
          /\ o.result = Told("TRADE_EXISTS", t, trades[t].status)
      BY <1>8 DEF Outcome, Nothing
    <2>2. UNCHANGED <<products, trades, tradeEvents, productEvents>>
      BY <1>2, <1>3, <2>1, AppliedNothing
    <2>3. UNCHANGED AbsProducts
      BY <2>2, AbsSameProducts
    <2>4. /\ a \in User /\ k \in Abs!RequestKey /\ Abs!Fresh(a, "trade.create", k)
          /\ Abs!Record(a, "trade.create", k, "TRADE_EXISTS", t, trades[t].status)
          /\ UNCHANGED reviews
      BY <1>1, <1>2, <1>5, <2>1, Recording
    <2>5. t \in Trade
      BY DEF Intent, InStatus
    <2>6. Abs!ReadIntent(a, p, t, k, conv)
      BY <1>6, <1>8, <2>2, <2>3, <2>4 DEF Abs!ReadIntent, AbsProducts
    <2>7. QED BY <2>4, <2>5, <2>6
  <1>9. ASSUME Intent(p, a) = {}, conv # "other", row.seller # a, row.status = "ON_SALE",
               NEW t \in Unborn,
               NEW new, new = [product |-> p, buyer |-> a, seller |-> row.seller,
                               price |-> row.price, status |-> "PENDING", confirmed |-> {},
                               conversation |-> IF conv = "own" THEN "own" ELSE "null"],
               o = Outcome(row, Just(t, new), Just(t, "created"), FALSE,
                           Told("TRADE_CREATED", t, "PENDING"))
        PROVE  /\ a \in User /\ k \in Abs!RequestKey /\ t \in Trade
               /\ Abs!CreateTrade(a, p, t, k, conv)
    <2>1. /\ o.row = row /\ o.writes = Just(t, new) /\ o.log = Just(t, "created")
          /\ o.said = FALSE /\ o.result = Told("TRADE_CREATED", t, "PENDING")
      BY <1>9 DEF Outcome
    <2>2. UNCHANGED <<products, productEvents>>
      BY <1>2, <1>3, <2>1, AppliedNothing
    <2>3. UNCHANGED AbsProducts
      BY <2>2, AbsSameProducts
    <2>4. /\ a \in User /\ k \in Abs!RequestKey /\ Abs!Fresh(a, "trade.create", k)
          /\ Abs!Record(a, "trade.create", k, "TRADE_CREATED", t, "PENDING")
          /\ UNCHANGED reviews
      BY <1>1, <1>2, <1>5, <2>1, Recording
    <2>5. t \in Trade /\ trades[t] = NoTrade
      BY DEF Unborn
    <2>6. trades' = [trades EXCEPT ![t] = new]
      BY <2>1, <2>5, AppliedOne DEF TablesOK
    <2>7. tradeEvents' = Abs!Logged({t}, "created")
      BY <2>1, <2>5, LoggedOne
    <2>8. /\ AbsProducts[p].seller = row.seller /\ AbsProducts[p].price = row.price
          /\ AbsProducts[p].status = row.status /\ AbsProducts[p].status # "NONE"
      BY <1>3, AbsRows
    <2>9. Abs!Tradable(p) /\ ~Abs!SoldBy(p, a)
      BY <1>9, <2>8 DEF Abs!Tradable, Abs!SoldBy, AbsProducts
    <2>10. new = [product |-> p, buyer |-> a, seller |-> AbsProducts[p].seller,
                  price |-> AbsProducts[p].price,
                  conversation |-> IF conv = "own" THEN "own" ELSE "null",
                  status |-> "PENDING", confirmed |-> {}]
      BY <1>9, <2>8
    <2>11. Abs!CreateTrade(a, p, t, k, conv)
      BY <1>6, <1>9, <2>2, <2>3, <2>4, <2>5, <2>6, <2>7, <2>8, <2>9, <2>10
      DEF Abs!CreateTrade, AbsProducts, NoTrade, Abs!NoTrade
    <2>12. QED BY <2>4, <2>5, <2>11
  <1>10. QED BY <1>1, <1>2, <1>3, <1>8, <1>9 DEF Creates, CreateTrade

LEMMA TradeSteps ==
  ASSUME TablesOK, NEW r, Ready(r), NEW o, Apply(r, o), NEW row, row = products[Target(r)],
         Keyed(r) => ledger[IdOf(r)] = NoResult, Moves(r, row, o)
  PROVE  AbsStep
  <1>1. r.op \in TradeAction /\ r.op \in Abs!Operation
    BY DEF Moves, Accept, Reject, Cancel, Confirm, TradeAction, Abs!Operation
  <1>2. PICK t, a, k, old : t = r.trade /\ a = r.actor /\ k = r.key /\ old = trades[t]
    OBVIOUS
  <1>3. PICK p : p = old.product
    OBVIOUS
  <1>4. /\ t \in Trade /\ old \in Abs!TradeRow /\ p = Target(r) /\ p \in Product
        /\ row \in Row /\ row = products[p] /\ a \in User
    BY <1>1, <1>2, <1>3, Aims DEF TradeAction, ProductAction
  <1>5. k \in Abs!RequestKey
    BY <1>1, <1>2, Requests DEF Ready, TradeAction, ProductAction, Abs!RequestKey
  <1>6. SUFFICES Abs!TradeCommand(a, t, k)
    BY <1>4, <1>5 DEF AbsStep
  <1>7. AbsProducts[p].status = row.status
    BY <1>4, AbsRows
  <1>8. old.status # "NONE"
    BY <1>4, NothingIsNone DEF Abs!TradeStatus
  <1>9. CASE o \in Accept(r, row)
    <2>1. PICK G : G = InStatus(p, {"PENDING"}) \ {t}
      OBVIOUS
    <2>2. /\ r.op = "trade.accept" /\ old.seller = a /\ old.status = "PENDING"
          /\ row.status = "ON_SALE" /\ o.row = Bumped(row, "RESERVED") /\ o.said = TRUE
          /\ o.writes = [u \in G \cup {t} |->
               [trades[u] EXCEPT !.status = IF u = t THEN "ACCEPTED" ELSE "CANCELLED"]]
          /\ o.log = [u \in G \cup {t} |-> IF u = t THEN "accepted" ELSE "cancelled"]
          /\ o.result = Told("TRADE_ACCEPTED", t, "ACCEPTED")
      BY <1>2, <1>3, <1>9, <2>1 DEF Accept, Outcome
    <2>3. G = Abs!Rivals(p, t) /\ G \subseteq Trade /\ t \notin G
      BY <2>1 DEF InStatus, Abs!Rivals, Abs!TradesOf
    <2>4. trades' = [x \in Trade |->
                       IF x = t THEN [trades[t] EXCEPT !.status = "ACCEPTED"]
                       ELSE Abs!Moved(G, "CANCELLED")[x]]
      <3>1. \A x \in Trade : trades'[x] =
               IF x = t THEN [trades[t] EXCEPT !.status = "ACCEPTED"]
               ELSE IF x \in G THEN [trades[x] EXCEPT !.status = "CANCELLED"] ELSE trades[x]
        BY <2>2, <2>3 DEF Apply
      <3>2. trades' = [x \in Trade |-> trades'[x]]
        BY DEF Apply
      <3>3. QED BY <3>1, <3>2 DEF Abs!Moved
    <2>5. tradeEvents' = [x \in Trade |->
                            IF x = t THEN Append(tradeEvents[t], "accepted")
                            ELSE Abs!Logged(G, "cancelled")[x]]
      <3>1. \A x \in Trade : tradeEvents'[x] =
               IF x = t THEN Append(tradeEvents[t], "accepted")
               ELSE IF x \in G THEN Append(tradeEvents[x], "cancelled") ELSE tradeEvents[x]
        BY <2>2, <2>3 DEF Apply
      <3>2. tradeEvents' = [x \in Trade |-> tradeEvents'[x]]
        BY DEF Apply
      <3>3. QED BY <3>1, <3>2 DEF Abs!Logged
    <2>6. Abs!MoveProduct(p, "RESERVED", t)
      <3>1. o.result.trade = t /\ "RESERVED" \in Abs!ProductStatus
        BY <2>2 DEF Told, Abs!ProductStatus
      <3>2. QED BY <1>4, <2>2, <3>1, ProductMoves
    <2>7. /\ Abs!Fresh(a, "trade.accept", k) /\ UNCHANGED reviews
          /\ Abs!Record(a, "trade.accept", k, "TRADE_ACCEPTED", t, "ACCEPTED")
      BY <1>1, <1>2, <2>2, Recording
    <2>8. Abs!Tradable(p)
      BY <1>7, <2>2 DEF Abs!Tradable, AbsProducts
    <2>9. Abs!Accept(a, t, k)
      BY <1>2, <1>3, <2>2, <2>3, <2>4, <2>5, <2>6, <2>7, <2>8 DEF Abs!Accept
    <2>10. QED BY <2>9 DEF Abs!TradeCommand
  <1>10. CASE o \in Reject(r, row)
    <2>1. /\ r.op = "trade.reject" /\ old.seller = a /\ old.status = "PENDING"
          /\ o.row = row /\ o.said = FALSE
          /\ o.writes = Just(t, [trades[t] EXCEPT !.status = "CANCELLED"])
          /\ o.log = Just(t, "cancelled") /\ o.result = Told("TRADE_REJECTED", t, "CANCELLED")
      BY <1>2, <1>10 DEF Reject, Outcome
    <2>2. /\ trades' = Abs!Moved({t}, "CANCELLED") /\ tradeEvents' = Abs!Logged({t}, "cancelled")
          /\ UNCHANGED <<productEvents, products>>
      BY <1>4, <2>1, MovedOne, LoggedOne, AppliedNothing
    <2>3. UNCHANGED AbsProducts
      BY <2>2, AbsSameProducts
    <2>4. /\ Abs!Fresh(a, "trade.reject", k) /\ UNCHANGED reviews
          /\ Abs!Record(a, "trade.reject", k, "TRADE_REJECTED", t, "CANCELLED")
      BY <1>1, <1>2, <2>1, Recording
    <2>5. Abs!Reject(a, t, k)
      BY <1>2, <2>1, <2>2, <2>3, <2>4 DEF Abs!Reject, AbsProducts
    <2>6. QED BY <2>5 DEF Abs!TradeCommand
  <1>11. CASE o \in Cancel(r, row)
    <2>1. /\ r.op = "trade.cancel"
          /\ \/ old.status = "PENDING" /\ old.buyer = a
             \/ old.status = "ACCEPTED" /\ a \in {old.buyer, old.seller} /\ row.status = "RESERVED"
          /\ o.row = IF old.status = "ACCEPTED" THEN Bumped(row, "ON_SALE") ELSE row
          /\ o.said = (old.status = "ACCEPTED")
          /\ o.writes = Just(t, [trades[t] EXCEPT !.status = "CANCELLED"])
          /\ o.log = Just(t, "cancelled") /\ o.result = Told("TRADE_CANCELLED", t, "CANCELLED")
      BY <1>2, <1>11 DEF Cancel, Outcome
    <2>2. /\ trades' = Abs!Moved({t}, "CANCELLED") /\ tradeEvents' = Abs!Logged({t}, "cancelled")
      BY <1>4, <2>1, MovedOne, LoggedOne
    <2>3. /\ Abs!Fresh(a, "trade.cancel", k) /\ UNCHANGED reviews
          /\ Abs!Record(a, "trade.cancel", k, "TRADE_CANCELLED", t, "CANCELLED")
      BY <1>1, <1>2, <2>1, Recording
    <2>4. CASE old.status = "PENDING" /\ old.buyer = a
      <3>1. UNCHANGED <<productEvents, products>>
        BY <1>4, <2>1, <2>4, AppliedNothing
      <3>2. UNCHANGED AbsProducts
        BY <3>1, AbsSameProducts
      <3>3. Abs!CancelPending(a, t, k)
        BY <1>2, <2>2, <2>3, <2>4, <3>1, <3>2 DEF Abs!CancelPending, AbsProducts
      <3>4. QED BY <3>3 DEF Abs!TradeCommand
    <2>5. CASE old.status = "ACCEPTED" /\ a \in {old.buyer, old.seller} /\ row.status = "RESERVED"
      <3>1. Abs!MoveProduct(p, "ON_SALE", t)
        <4>1. o.result.trade = t /\ "ON_SALE" \in Abs!ProductStatus
          BY <2>1 DEF Told, Abs!ProductStatus
        <4>2. o.row = Bumped(products[p], "ON_SALE") /\ o.said
          BY <1>4, <2>1, <2>5
        <4>3. QED BY <1>4, <4>1, <4>2, ProductMoves
      <3>2. Abs!Party(t, a) /\ AbsProducts[p].status = "RESERVED"
        BY <1>2, <1>7, <1>8, <2>5 DEF Abs!Party
      <3>3. Abs!CancelAccepted(a, t, k)
        BY <1>2, <1>3, <2>2, <2>3, <2>5, <3>1, <3>2 DEF Abs!CancelAccepted, AbsProducts
      <3>4. QED BY <3>3 DEF Abs!TradeCommand
    <2>6. QED BY <2>1, <2>4, <2>5
  <1>12. CASE o \in Confirm(r, row)
    <2>1. PICK sides : sides = Sides(t, a)
      OBVIOUS
    <2>2. sides = trades[t].confirmed \cup {Abs!RoleOf(t, a)} /\ Abs!Party(t, a)
          /\ r.op = "trade.confirm"
      BY <1>2, <1>8, <1>12, <2>1 DEF Confirm, Sides, Abs!RoleOf, Abs!Party
    <2>3. CASE /\ old.status = "COMPLETED"
               /\ o = Outcome(row, Nothing, Nothing, FALSE, Told("TRADE_CONFIRMED", t, "COMPLETED"))
      <3>1. /\ o.row = row /\ o.said = FALSE /\ DOMAIN o.writes = {} /\ DOMAIN o.log = {}
            /\ o.result = Told("TRADE_CONFIRMED", t, "COMPLETED")
        BY <2>3 DEF Outcome, Nothing
      <3>2. UNCHANGED <<products, trades, tradeEvents, productEvents>>
        BY <1>4, <3>1, AppliedNothing
      <3>3. UNCHANGED AbsProducts
        BY <3>2, AbsSameProducts
      <3>4. /\ Abs!Fresh(a, "trade.confirm", k) /\ UNCHANGED reviews
            /\ Abs!Record(a, "trade.confirm", k, "TRADE_CONFIRMED", t, "COMPLETED")
        BY <1>1, <1>2, <2>2, <3>1, Recording
      <3>5. Abs!ConfirmCompleted(a, t, k)
        BY <1>2, <2>2, <2>3, <3>2, <3>3, <3>4 DEF Abs!ConfirmCompleted, AbsProducts
      <3>6. QED BY <3>5 DEF Abs!TradeCommand
    <2>4. CASE /\ old.status = "ACCEPTED" /\ sides # Abs!Role
               /\ o = Outcome(row, Just(t, [old EXCEPT !.confirmed = sides]),
                              Nothing, FALSE, Told("TRADE_CONFIRMED", t, "ACCEPTED"))
      <3>1. /\ o.row = row /\ o.said = FALSE /\ DOMAIN o.log = {}
            /\ o.writes = Just(t, [trades[t] EXCEPT !.confirmed = sides])
            /\ o.result = Told("TRADE_CONFIRMED", t, "ACCEPTED")
        BY <1>2, <2>4 DEF Outcome, Nothing
      <3>2. UNCHANGED <<products, tradeEvents, productEvents>>
        BY <1>4, <3>1, AppliedNothing
      <3>3. UNCHANGED AbsProducts
        BY <3>2, AbsSameProducts
      <3>4. trades' = [trades EXCEPT ![t].confirmed = @ \cup {Abs!RoleOf(t, a)}]
        BY <1>4, <2>2, <3>1, AppliedOne DEF TablesOK
      <3>5. /\ Abs!Fresh(a, "trade.confirm", k) /\ UNCHANGED reviews
            /\ Abs!Record(a, "trade.confirm", k, "TRADE_CONFIRMED", t, "ACCEPTED")
        BY <1>1, <1>2, <2>2, <3>1, Recording
      <3>6. Abs!ConfirmOneSide(a, t, k)
        BY <1>2, <2>2, <2>4, <3>2, <3>3, <3>4, <3>5 DEF Abs!ConfirmOneSide, AbsProducts
      <3>7. QED BY <3>6 DEF Abs!TradeCommand
    <2>5. CASE /\ old.status = "ACCEPTED" /\ sides = Abs!Role /\ row.status = "RESERVED"
               /\ o = Outcome(Bumped(row, "SOLD"),
                        Just(t, [old EXCEPT !.confirmed = sides, !.status = "COMPLETED"]),
                        Just(t, "completed"), TRUE, Told("TRADE_COMPLETED", t, "COMPLETED"))
      <3>1. PICK x : x = [old EXCEPT !.confirmed = sides, !.status = "COMPLETED"]
        OBVIOUS
      <3>2. /\ o.row = Bumped(row, "SOLD") /\ o.said = TRUE /\ o.writes = Just(t, x)
            /\ o.log = Just(t, "completed") /\ o.result = Told("TRADE_COMPLETED", t, "COMPLETED")
        BY <2>5, <3>1 DEF Outcome
      <3>3. x = [[old EXCEPT !.status = "COMPLETED"] EXCEPT !.confirmed = Abs!Role]
        BY <1>4, <2>5, <3>1 DEF Abs!TradeRow
      <3>4. trades' = [Abs!Moved({t}, "COMPLETED") EXCEPT ![t].confirmed = Abs!Role]
        <4>1. trades' = [u \in Trade |-> IF u = t THEN x ELSE trades[u]]
          BY <1>4, <3>2, AppliedOne
        <4>2. QED BY <1>2, <1>4, <3>3, <4>1 DEF Abs!Moved
      <3>5. tradeEvents' = Abs!Logged({t}, "completed")
        BY <1>4, <3>2, LoggedOne
      <3>6. Abs!MoveProduct(p, "SOLD", t)
        <4>1. o.result.trade = t /\ "SOLD" \in Abs!ProductStatus
          BY <3>2 DEF Told, Abs!ProductStatus
        <4>2. QED BY <1>4, <3>2, <4>1, ProductMoves
      <3>7. /\ Abs!Fresh(a, "trade.confirm", k) /\ UNCHANGED reviews
            /\ Abs!Record(a, "trade.confirm", k, "TRADE_COMPLETED", t, "COMPLETED")
        BY <1>1, <1>2, <2>2, <3>2, Recording
      <3>8. AbsProducts[p].status = "RESERVED"
        BY <1>7, <2>5
      <3>9. Abs!ConfirmAndComplete(a, t, k)
        BY <1>2, <1>3, <2>2, <2>5, <3>4, <3>5, <3>6, <3>7, <3>8
        DEF Abs!ConfirmAndComplete, AbsProducts
      <3>10. QED BY <3>9 DEF Abs!TradeCommand
    <2>6. QED BY <1>2, <1>12, <2>1, <2>3, <2>4, <2>5 DEF Confirm
  <1>13. QED BY <1>9, <1>10, <1>11, <1>12 DEF Moves

LEMMA AbsProductPriced ==
  ASSUME TablesOK, NEW p \in Product, products[p] \in Row, NEW price \in Price, NEW new,
         new = [Bumped(products[p], products[p].status) EXCEPT !.price = price],
         products' = [products EXCEPT ![p] = new]
  PROVE  AbsProducts' = [AbsProducts EXCEPT ![p].price = price]
  <1>1. \A q \in Product : products'[q] = IF q = p THEN new ELSE products[q]
    BY DEF TablesOK
  <1>2. Shown(products'[p]) = [Shown(products[p]) EXCEPT !.price = price]
    BY <1>1, ShownPriced
  <1>3. AbsProducts' = [q \in Product |-> Shown(products'[q])]
    BY DEF AbsProducts, Shown
  <1>4. \A q \in Product : AbsProducts[q] = Shown(products[q])
    BY DEF AbsProducts
  <1>5. PICK f : f = [AbsProducts EXCEPT ![p].price = price]
    OBVIOUS
  <1>6. /\ f = [q \in Product |-> f[q]]
        /\ \A q \in Product : f[q] = IF q = p THEN [AbsProducts[p] EXCEPT !.price = price]
                                     ELSE AbsProducts[q]
    BY <1>5 DEF AbsProducts
  <1>7. \A q \in Product : f[q] = Shown(products'[q])
    BY <1>1, <1>2, <1>4, <1>6
  <1>8. QED BY <1>3, <1>5, <1>6, <1>7

LEMMA EditSteps ==
  ASSUME TablesOK, NEW r, Ready(r), NEW o, Apply(r, o), NEW row, row = products[Target(r)],
         Edits(r, row, o)
  PROVE  AbsStep
  <1>1. r.op \in ProductAction
    BY DEF Edits, ChangeProduct, ProductAction
  <1>2. PICK p, a : p = Target(r) /\ a = r.actor
    OBVIOUS
  <1>3. /\ p = r.product /\ p \in Product /\ row \in Row /\ row = products[p] /\ a \in User
        /\ row.status \in Abs!ProductStatus
    BY <1>1, <1>2, Aims DEF TradeAction, ProductAction, Row
  <1>4. r.price \in Price /\ ~Keyed(r)
    BY <1>1, Requests DEF Ready, TradeAction, ProductAction, Keyed
  <1>5. SUFFICES Abs!ProductCommand(a, p)
    BY <1>3 DEF AbsStep
  <1>6. /\ AbsProducts[p].seller = row.seller /\ AbsProducts[p].status = row.status
        /\ AbsProducts[p].status # "NONE"
    BY <1>3, AbsRows
  <1>7. row.seller = a
    BY <1>2 DEF Edits, ChangeProduct
  <1>8. Abs!SoldBy(p, a)
    BY <1>6, <1>7 DEF Abs!SoldBy, AbsProducts
  <1>9. InStatus(p, {"PENDING"}) = {} => ~Abs!HasPending(p)
    BY DEF InStatus, Abs!HasPending, Abs!TradesOf
  <1>10. ASSUME NEW new, o = Outcome(new, Nothing, Nothing, FALSE, NoResult)
         PROVE  /\ products' = [products EXCEPT ![p] = new]
                /\ UNCHANGED <<trades, reviews, ledger, tradeEvents, productEvents>>
    <2>1. o.row = new /\ DOMAIN o.writes = {} /\ DOMAIN o.log = {} /\ o.said = FALSE
      BY <1>10 DEF Outcome, Nothing
    <2>2. UNCHANGED <<trades, tradeEvents, productEvents>>
      BY <2>1, AppliedNothing
    <2>3. QED BY <1>2, <1>4, <2>1, <2>2 DEF Apply
  <1>11. {"ON_SALE", "OFF_SHELF"} \subseteq Abs!ProductStatus
    BY DEF Abs!ProductStatus
  <1>12. CASE /\ row.status \in {"ON_SALE", "OFF_SHELF"} /\ InStatus(p, {"PENDING"}) = {}
              /\ o = Outcome([Bumped(row, row.status) EXCEPT !.price = r.price],
                             Nothing, Nothing, FALSE, NoResult)
    <2>1. AbsProducts' = [AbsProducts EXCEPT ![p].price = r.price]
      <3>1. PICK new : new = [Bumped(products[p], products[p].status) EXCEPT !.price = r.price]
        OBVIOUS
      <3>2. products' = [products EXCEPT ![p] = new]
        BY <1>3, <1>10, <1>12, <3>1
      <3>3. QED BY <1>3, <1>4, <3>1, <3>2, AbsProductPriced
    <2>2. Abs!Mutable(p, a)
      BY <1>6, <1>8, <1>9, <1>12 DEF Abs!Mutable, AbsProducts
    <2>3. Abs!Update(a, p, r.price)
      BY <1>10, <1>12, <2>1, <2>2 DEF Abs!Update, AbsProducts
    <2>4. QED BY <1>4, <2>3 DEF Abs!ProductCommand
  <1>13. CASE /\ row.status = "ON_SALE" /\ InStatus(p, {"PENDING"}) = {}
              /\ o = Outcome(Bumped(row, "OFF_SHELF"), Nothing, Nothing, FALSE, NoResult)
    <2>1. AbsProducts' = [AbsProducts EXCEPT ![p].status = "OFF_SHELF"]
      <3>1. products' = [products EXCEPT ![p] = Bumped(products[p], "OFF_SHELF")]
        BY <1>3, <1>10, <1>13
      <3>2. QED BY <1>3, <1>11, <3>1, AbsProductMoves
    <2>2. Abs!OffShelf(a, p)
      BY <1>6, <1>8, <1>9, <1>10, <1>13, <2>1 DEF Abs!OffShelf, AbsProducts
    <2>3. QED BY <2>2 DEF Abs!ProductCommand
  <1>14. CASE /\ row.status = "OFF_SHELF"
              /\ o = Outcome(Bumped(row, "ON_SALE"), Nothing, Nothing, FALSE, NoResult)
    <2>1. AbsProducts' = [AbsProducts EXCEPT ![p].status = "ON_SALE"]
      <3>1. products' = [products EXCEPT ![p] = Bumped(products[p], "ON_SALE")]
        BY <1>3, <1>10, <1>14
      <3>2. QED BY <1>3, <1>11, <3>1, AbsProductMoves
    <2>2. Abs!Relist(a, p)
      BY <1>6, <1>8, <1>10, <1>14, <2>1 DEF Abs!Relist, AbsProducts
    <2>3. QED BY <2>2 DEF Abs!ProductCommand
  <1>15. QED BY <1>3, <1>12, <1>13, <1>14 DEF Edits, ChangeProduct

LEMMA CommitSteps ==
  ASSUME IInv, NEW w \in Worker, NEW answered \in BOOLEAN, Commit(w, answered)
  PROVE  AbsStep
  <1>1. PICK r, o : r = tx[w].req /\ o = tx[w].out
    OBVIOUS
  <1>2. PICK row : row = products[Target(r)]
    OBVIOUS
  <1>3. /\ Ready(r) /\ Decides(r, o) /\ Apply(r, o) /\ TablesOK
        /\ Keyed(r) => ledger[IdOf(r)] = NoResult
    BY <1>1, CommitFacts DEF IInv
  <1>4. Chooses(r, row, Unborn, o)
    BY <1>2, <1>3 DEF Decides
  <1>5. QED BY <1>2, <1>3, <1>4, CreationSteps, TradeSteps, EditSteps DEF Chooses

LEMMA PublishSteps ==
  ASSUME IInv, NEW r \in Request, Publish(r)
  PROVE  AbsStep
  <1>1. PICK q \in Product :
          /\ products[q] = NoProduct
          /\ products' = [products EXCEPT ![q] =
               [seller |-> r.actor, price |-> r.price, status |-> "ON_SALE", version |-> 1]]
    BY DEF Publish
  <1>2. PICK new : new = [seller |-> r.actor, price |-> r.price, status |-> "ON_SALE",
                          version |-> 1]
    OBVIOUS
  <1>3. r.actor \in User /\ r.price \in Price
    BY RequestAssumption DEF Publish
  <1>4. new # NoProduct
    BY <1>2, NothingIsNone
  <1>5. Shown(new) = [seller |-> r.actor, price |-> r.price, status |-> "ON_SALE"]
    BY <1>2, <1>4 DEF Shown
  <1>6. \A p \in Product : products'[p] = IF p = q THEN new ELSE products[p]
    BY <1>1, <1>2 DEF IInv, TablesOK
  <1>7. AbsProducts' = [p \in Product |-> Shown(products'[p])]
    BY DEF AbsProducts, Shown
  <1>8. AbsProducts' = [AbsProducts EXCEPT ![q] =
                          [seller |-> r.actor, price |-> r.price, status |-> "ON_SALE"]]
    BY <1>5, <1>6, <1>7 DEF AbsProducts
  <1>9. AbsProducts[q] = NoProduct
    BY <1>1 DEF AbsProducts, Shown
  <1>10. Abs!Publish(r.actor, q, r.price)
    BY <1>8, <1>9 DEF Publish, Abs!Publish, AbsProducts, NoProduct, Abs!NoProduct
  <1>11. QED BY <1>3, <1>10 DEF AbsStep, Abs!ProductCommand

LEMMA ReviewSteps ==
  ASSUME IInv, NEW w \in Worker, InsertReview(w)
  PROVE  AbsStep
  <1>1. PICK r : r = tx[w].req
    OBVIOUS
  <1>2. /\ trades[r.trade].status = "COMPLETED" /\ trades[r.trade].buyer = r.actor
        /\ r.op = "review.create"
    BY <1>1 DEF IInv, Serving, Knows, InsertReview
  <1>3. r \in Asked
    BY <1>1, Phases DEF IInv, InsertReview
  <1>4. r.trade \in Trade /\ r.actor \in User
    BY <1>2, <1>3, Requests DEF TradeAction, ProductAction
  <1>5. UNCHANGED AbsProducts
    BY AbsSameProducts DEF InsertReview
  <1>6. Abs!Review(r.actor, r.trade)
    BY <1>1, <1>2, <1>5 DEF InsertReview, Abs!Review, AbsProducts
  <1>7. QED BY <1>4, <1>6 DEF AbsStep

LEMMA WorkIsSilent ==
  ASSUME IInv, NEW w \in Worker, Work(w)
  PROVE  UNCHANGED tables
  <1>1. PICK o : Write(w, o)
    BY WorkChooses
  <1>2. QED BY <1>1 DEF Write, RollBack

LEMMA TablesShown ==
  ASSUME UNCHANGED tables
  PROVE  UNCHANGED AbsTables
  BY AbsSameProducts DEF tables, AbsTables

LEMMA AbsVars == AbsTables = Abs!vars /\ AbsTables' = Abs!vars'
  BY DEF AbsTables, AbsProducts, Abs!vars

LEMMA StepsAreCommands ==
  ASSUME IInv, [Next]_vars
  PROVE  [Abs!Next]_(Abs!vars)
  <1>1. SUFFICES AbsStep \/ UNCHANGED AbsTables
    BY AbsNext, AbsVars
  <1>2. ASSUME NEW r \in Request, Publish(r) PROVE AbsStep
    BY <1>2, PublishSteps
  <1>3. ASSUME NEW w \in Worker, NEW r \in Request, Begin(w, r) PROVE UNCHANGED tables
    BY <1>3 DEF Begin
  <1>4. ASSUME NEW w \in Worker, Step(w) PROVE AbsStep \/ UNCHANGED tables
    <2>1. CASE LockKey(w) \/ Replay(w) \/ Miss(w) \/ Find(w) \/ LockProduct(w)
      BY <2>1 DEF LockKey, Replay, Miss, Find, LockProduct
    <2>2. CASE Work(w)
      BY <2>2, WorkIsSilent
    <2>3. CASE \E answered \in BOOLEAN : Commit(w, answered)
      BY <2>3, CommitSteps
    <2>4. CASE InsertReview(w)
      BY <2>4, ReviewSteps
    <2>5. QED BY <1>4, <2>1, <2>2, <2>3, <2>4 DEF Step
  <1>5. ASSUME NEW w \in Worker, Refuse(w) \/ Fail(w) PROVE UNCHANGED tables
    BY <1>5 DEF Refuse, Fail, RollBack
  <1>6. CASE UNCHANGED vars
    BY <1>6, TablesShown DEF vars
  <1>7. QED BY <1>2, <1>3, <1>4, <1>5, <1>6, TablesShown DEF Next

LEMMA BeginsAsMarketplace ==
  ASSUME Init
  PROVE  Abs!Init
  <1>1. AbsProducts = [p \in Product |-> Abs!NoProduct]
    BY DEF Init, AbsProducts, Shown, NoProduct, Abs!NoProduct
  <1>2. QED BY <1>1 DEF Init, Abs!Init, AbsProducts, NoTrade, Abs!NoTrade,
                        NoResult, Abs!NoResult

(* The transactions implement Marketplace: whatever requests interleave,    *)
(* fail between any two steps, lose their answer or are sent again, the     *)
(* committed tables go through one command of Marketplace at a time, and    *)
(* every invariant proved of Marketplace is one of theirs.                  *)
THEOREM TransactionsAreCommands == Spec => ImplementsMarketplace
  <1>1. IInv /\ [Next]_vars => [Abs!Next]_(Abs!vars)
    BY StepsAreCommands
  <1>2. Init => Abs!Init
    BY BeginsAsMarketplace
  <1>3. QED BY <1>1, <1>2, Invariance, PTL DEF Spec, ImplementsMarketplace, Abs!Spec
=============================================================================
