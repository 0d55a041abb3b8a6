-------------------------------- MODULE TradeTx --------------------------------
(***************************************************************************)
(* The transactions behind the Marketplace commands.  Each worker is a     *)
(* request being served on one database connection: it takes the advisory  *)
(* lock of its idempotency key, looks in the ledger, locks the Product     *)
(* row, works on what it read, and commits everything it wrote at once.    *)
(* Requests interleave at every one of these steps, may be sent again by a *)
(* client that got no answer, and may fail at every one of them (deadline, *)
(* lost connection, killed process).                                       *)
(*                                                                         *)
(* Trade rows are only locked under the lock of their product, so the      *)
(* Product lock stands for both; LockOrder has the row locks that foreign  *)
(* keys take on the side.  Writes of an open transaction are invisible to  *)
(* the others (READ COMMITTED), so they are kept in the worker's outcome   *)
(* until the commit.                                                       *)
(***************************************************************************)
EXTENDS Naturals, Sequences

CONSTANTS
  User, Product, Trade, Price, Key, NoKey,   \* as in Marketplace
  Worker,              \* requests that can be served at the same time
  Request,             \* what clients may ask for
  MaxSends(_),         \* bound on the times a client sends a request
  LockId(_)            \* advisory lock number of a command id

VARIABLES
  products, trades, reviews, ledger,   \* committed tables
  tradeEvents, productEvents,          \* committed outbox rows
  keyLock,    \* holder of each advisory lock
  rowLock,    \* holder of each Product row lock
  tx,         \* what each worker is doing
  sent,       \* times each request was sent
  replies,    \* successful results the clients received
  caught      \* last-line checks of the schema that had to refuse a write

(* What clients may send.  A lock that nobody holds is not a worker's.      *)
ASSUME RequestAssumption ==
  /\ NoKey \notin Key /\ "free" \notin Worker
  /\ Request \subseteq
       [op : {"product.create"}, actor : User, price : Price]
       \cup [op : {"trade.create"}, actor : User, product : Product,
             conv : {"absent", "null", "own", "other"}, key : Key \cup {NoKey}]
       \cup [op : {"trade.accept", "trade.reject", "trade.cancel", "trade.confirm"},
             actor : User, trade : Trade, key : Key \cup {NoKey}]
       \cup [op : {"product.update", "product.off_shelf", "product.relist"},
             actor : User, product : Product, price : Price]
       \cup [op : {"review.create"}, actor : User, trade : Trade]

tables == <<products, trades, reviews, ledger, tradeEvents, productEvents>>
vars == <<tables, keyLock, rowLock, tx, sent, replies, caught>>

-----------------------------------------------------------------------------
(* products carry the version column here; the abstract rows do not. *)
NoProduct == [status |-> "NONE"]
NoTrade == [status |-> "NONE"]
NoResult == [code |-> "NONE"]
Free == "free"

Shown(row) ==
  IF row = NoProduct THEN NoProduct
  ELSE [seller |-> row.seller, price |-> row.price, status |-> row.status]

Abs == INSTANCE Marketplace WITH products <- [p \in Product |-> Shown(products[p])]

TradeAction == {"trade.accept", "trade.reject", "trade.cancel", "trade.confirm"}
ProductAction == {"product.update", "product.off_shelf", "product.relist"}

Keyed(r) == "key" \in DOMAIN r /\ r.key # NoKey
IdOf(r) == [actor |-> r.actor, op |-> r.op, key |-> r.key]
KeyLocks == {LockId(c) : c \in Abs!CommandId}

Idle == [pc |-> "idle"]

(* Trades of a product, as a worker under its lock reads them. *)
InStatus(p, S) == {t \in Trade : trades[t].status \in S /\ trades[t].product = p}
Intent(p, a) == {t \in InStatus(p, {"PENDING", "ACCEPTED"}) : trades[t].buyer = a}

(* The product a request works on. *)
Target(r) == IF r.op \in TradeAction THEN trades[r.trade].product ELSE r.product

(* Mutant: a confirmation counts for the other side. *)
SidesSwapped(t, a) ==
  trades[t].confirmed \cup {IF trades[t].buyer = a THEN "seller" ELSE "buyer"}

(* Who has confirmed once a has. *)
Sides(t, a) ==
  trades[t].confirmed \cup {IF trades[t].buyer = a THEN "buyer" ELSE "seller"}

(* Identifiers of the generator are never handed out twice. *)
FreshTrade ==
  {t \in Trade : /\ trades[t] = NoTrade
                 /\ \A w \in Worker : tx[w].pc = "commit" =>
                      t \notin DOMAIN tx[w].out.writes}

-----------------------------------------------------------------------------
(* Steps shared by all commands. *)

(* Mutant: the advisory lock belongs to the session, not the transaction.  *)
ReleaseRowOnly(w) ==
  /\ rowLock' = [p \in Product |-> IF rowLock[p] = w THEN Free ELSE rowLock[p]]
  /\ UNCHANGED keyLock

(* Advisory and row locks belong to the transaction and end with it. *)
Release(w) ==
  /\ keyLock' = [l \in KeyLocks |-> IF keyLock[l] = w THEN Free ELSE keyLock[l]]
  /\ rowLock' = [p \in Product |-> IF rowLock[p] = w THEN Free ELSE rowLock[p]]

Enter(w, pc) == tx' = [tx EXCEPT ![w].pc = pc]

(* Rollback: whatever the transaction wrote was never visible. *)
RollBack(w, next) ==
  /\ Release(w)
  /\ tx' = [tx EXCEPT ![w] = next]
  /\ UNCHANGED <<tables, sent, replies>>

(* A request arrives, for the first time or again. *)
Begin(w, r) ==
  /\ tx[w].pc = "idle"
  /\ r.op # "product.create"
  /\ sent[r] < MaxSends(r)
  /\ sent' = [sent EXCEPT ![r] = @ + 1]
  /\ tx' = [tx EXCEPT ![w] = [pc |-> IF Keyed(r) THEN "key" ELSE "find",
                              req |-> r, retried |-> FALSE]]
  /\ UNCHANGED <<tables, keyLock, rowLock, replies, caught>>

(* Mutant: the advisory lock is shared. *)
LockKeyShared(w) ==
  /\ tx[w].pc = "key"
  /\ Enter(w, "ledger")
  /\ UNCHANGED <<tables, keyLock, rowLock, sent, replies, caught>>

LockKey(w) ==
  /\ tx[w].pc = "key"
  /\ LET l == LockId(IdOf(tx[w].req))
     IN  keyLock[l] = Free /\ keyLock' = [keyLock EXCEPT ![l] = w]
  /\ Enter(w, "ledger")
  /\ UNCHANGED <<tables, rowLock, sent, replies, caught>>

(* A stored result is answered before any state is looked at. *)
Replay(w) ==
  LET c == IdOf(tx[w].req) IN
  /\ tx[w].pc = "ledger"
  /\ ledger[c] # NoResult
  /\ replies' = [replies EXCEPT ![tx[w].req] = @ \cup {ledger[c]}]
  /\ tx' = [tx EXCEPT ![w] = Idle]
  /\ Release(w)
  /\ UNCHANGED <<tables, sent, caught>>

Miss(w) ==
  /\ tx[w].pc = "ledger"
  /\ ledger[IdOf(tx[w].req)] = NoResult
  /\ Enter(w, "find")
  /\ UNCHANGED <<tables, keyLock, rowLock, sent, replies, caught>>

(* Before the Product lock: a trade command reads, without a lock, which   *)
(* product its trade is about; a creation asks Messaging for the           *)
(* conversation; a review reads the trade.                                 *)
Found(r) ==
  /\ r.op \in TradeAction => trades[r.trade] # NoTrade
  /\ r.op = "review.create" =>
       trades[r.trade].status = "COMPLETED" /\ trades[r.trade].buyer = r.actor

Find(w) ==
  /\ tx[w].pc = "find"
  /\ Found(tx[w].req)
  /\ Enter(w, IF tx[w].req.op = "review.create" THEN "insert" ELSE "lock")
  /\ UNCHANGED <<tables, keyLock, rowLock, sent, replies, caught>>

(* Mutant: SELECT without FOR UPDATE. *)
ReadProduct(w) ==
  LET p == Target(tx[w].req) IN
  /\ tx[w].pc = "lock"
  /\ products[p] # NoProduct
  /\ tx' = [tx EXCEPT ![w] = [pc |-> "work", req |-> @.req, retried |-> @.retried,
                              row |-> products[p]]]
  /\ UNCHANGED <<tables, keyLock, rowLock, sent, replies, caught>>

(* SELECT ... FOR UPDATE waits for the holder and reads the row it left. *)
LockProduct(w) ==
  LET p == Target(tx[w].req) IN
  /\ tx[w].pc = "lock"
  /\ products[p] # NoProduct
  /\ rowLock[p] = Free
  /\ rowLock' = [rowLock EXCEPT ![p] = w]
  /\ tx' = [tx EXCEPT ![w] = [pc |-> "work", req |-> @.req, retried |-> @.retried,
                              row |-> products[p]]]
  /\ UNCHANGED <<tables, keyLock, sent, replies, caught>>

-----------------------------------------------------------------------------
(* What the command callbacks write. *)

(* row: the product row to write; writes, log: trade rows and events;      *)
(* said: whether a product.status_changed event is written.                *)
Outcome(row, writes, log, said, result) ==
  [row |-> row, writes |-> writes, log |-> log, said |-> said, result |-> result]
Nothing == [t \in {} |-> NoTrade]
Just(t, x) == [u \in {t} |-> x]
Told(code, t, status) == [code |-> code, trade |-> t, status |-> status]
Bumped(row, status) == [row EXCEPT !.status = status, !.version = @ + 1]

(* The schema's own checks, in the order the writes reach them. *)
Refusals(r, row, o) ==
  LET p == Target(r)
      accepting == \E t \in DOMAIN o.writes : o.writes[t].status = "ACCEPTED"
      creating == \E t \in DOMAIN o.writes : o.writes[t].status = "PENDING"
  IN  (IF accepting /\ InStatus(p, {"ACCEPTED"}) \ DOMAIN o.writes # {}
       THEN {"trades_one_accepted_per_product"} ELSE {})
      \cup (IF creating /\ Intent(p, r.actor) # {}
            THEN {"trades_one_active_intent_per_buyer"} ELSE {})
      \cup (IF o.row # row /\ products[p].version # row.version
            THEN {"version"} ELSE {})
      \cup (IF Keyed(r) /\ ledger[IdOf(r)] # NoResult
            THEN {"idempotency_records_pkey"} ELSE {})

(* A lost race on the ledger key is tried once more, to find the result.   *)
Write(w, o) ==
  LET refusals == Refusals(tx[w].req, tx[w].row, o) IN
  IF refusals = {}
  THEN /\ tx' = [tx EXCEPT ![w] = [pc |-> "commit", req |-> @.req, out |-> o]]
       /\ UNCHANGED <<tables, keyLock, rowLock, sent, replies, caught>>
  ELSE /\ caught' = caught \cup refusals
       /\ RollBack(w, IF refusals = {"idempotency_records_pkey"} /\ ~tx[w].retried
                      THEN [pc |-> "key", req |-> tx[w].req, retried |-> TRUE]
                      ELSE Idle)

(* What a command writes, if its checks let it. *)
When(checks, o) == IF checks THEN {o} ELSE {}

CreateTrade(r, row, fresh) ==
  LET mine == Intent(r.product, r.actor)
      new == [product |-> r.product, buyer |-> r.actor, seller |-> row.seller,
              price |-> row.price, status |-> "PENDING", confirmed |-> {},
              conversation |-> IF r.conv = "own" THEN "own" ELSE "null"]
  IN
  IF r.op # "trade.create" THEN {}
  ELSE IF mine # {}
  THEN {Outcome(row, Nothing, Nothing, FALSE, Told("TRADE_EXISTS", t, trades[t].status)) :
          t \in {u \in mine : r.conv \in {"absent", trades[u].conversation}}}
  ELSE {Outcome(row, Just(t, new), Just(t, "created"), FALSE,
                Told("TRADE_CREATED", t, "PENDING")) :
          t \in {u \in fresh : /\ r.conv # "other"
                               /\ row.seller # r.actor /\ row.status = "ON_SALE"}}

Accept(r, row) ==
  LET t == r.trade
      gone == InStatus(trades[t].product, {"PENDING"}) \ {t}
  IN
  When(/\ r.op = "trade.accept"
       /\ trades[t].seller = r.actor /\ trades[t].status = "PENDING"
       /\ row.status = "ON_SALE",
       Outcome(Bumped(row, "RESERVED"),
         [u \in gone \cup {t} |->
            [trades[u] EXCEPT !.status = IF u = t THEN "ACCEPTED" ELSE "CANCELLED"]],
         [u \in gone \cup {t} |-> IF u = t THEN "accepted" ELSE "cancelled"],
         TRUE, Told("TRADE_ACCEPTED", t, "ACCEPTED")))

Reject(r, row) ==
  LET t == r.trade IN
  When(/\ r.op = "trade.reject"
       /\ trades[t].seller = r.actor /\ trades[t].status = "PENDING",
       Outcome(row, Just(t, [trades[t] EXCEPT !.status = "CANCELLED"]),
         Just(t, "cancelled"), FALSE, Told("TRADE_REJECTED", t, "CANCELLED")))

Cancel(r, row) ==
  LET t == r.trade
      accepted == trades[t].status = "ACCEPTED"
  IN
  When(/\ r.op = "trade.cancel"
       /\ \/ trades[t].status = "PENDING" /\ trades[t].buyer = r.actor
          \/ accepted /\ r.actor \in {trades[t].buyer, trades[t].seller}
                      /\ row.status = "RESERVED",
       Outcome(IF accepted THEN Bumped(row, "ON_SALE") ELSE row,
         Just(t, [trades[t] EXCEPT !.status = "CANCELLED"]),
         Just(t, "cancelled"), accepted, Told("TRADE_CANCELLED", t, "CANCELLED")))

Confirm(r, row) ==
  LET t == r.trade
      sides == Sides(t, r.actor)
      party == r.op = "trade.confirm" /\ r.actor \in {trades[t].buyer, trades[t].seller}
  IN
  When(party /\ trades[t].status = "COMPLETED",
       Outcome(row, Nothing, Nothing, FALSE, Told("TRADE_CONFIRMED", t, "COMPLETED")))
  \cup
  When(party /\ trades[t].status = "ACCEPTED" /\ sides # Abs!Role,
       Outcome(row, Just(t, [trades[t] EXCEPT !.confirmed = sides]),
         Nothing, FALSE, Told("TRADE_CONFIRMED", t, "ACCEPTED")))
  \cup
  When(party /\ trades[t].status = "ACCEPTED" /\ sides = Abs!Role /\ row.status = "RESERVED",
       Outcome(Bumped(row, "SOLD"),
         Just(t, [trades[t] EXCEPT !.confirmed = sides, !.status = "COMPLETED"]),
         Just(t, "completed"), TRUE, Told("TRADE_COMPLETED", t, "COMPLETED")))

(* ProductRepository.Mutate: the pending intents are read under the lock. *)
ChangeProduct(r, row) ==
  LET waiting == InStatus(r.product, {"PENDING"}) # {}
      Owned(op, S) == r.op = op /\ row.seller = r.actor /\ row.status \in S
      Put(new) == Outcome(new, Nothing, Nothing, FALSE, NoResult)
  IN
  When(Owned("product.update", {"ON_SALE", "OFF_SHELF"}) /\ ~waiting,
       Put([Bumped(row, row.status) EXCEPT !.price = r.price]))
  \cup When(Owned("product.off_shelf", {"ON_SALE"}) /\ ~waiting, Put(Bumped(row, "OFF_SHELF")))
  \cup When(Owned("product.relist", {"OFF_SHELF"}), Put(Bumped(row, "ON_SALE")))

(* What a request can write once it has locked the product and read row. *)
Command(r, row, fresh) ==
  CreateTrade(r, row, fresh)
    \cup Accept(r, row) \cup Reject(r, row) \cup Cancel(r, row) \cup Confirm(r, row)
    \cup ChangeProduct(r, row)

Work(w) ==
  /\ tx[w].pc = "work"
  /\ \E o \in Command(tx[w].req, tx[w].row, FreshTrade) : Write(w, o)

-----------------------------------------------------------------------------
(* How a transaction ends. *)

(* Mutant: the ledger is not written with the tables. *)
ApplyUnrecorded(r, o) ==
  LET p == Target(r) IN
  /\ products' = [products EXCEPT ![p] = o.row]
  /\ trades' = [t \in Trade |-> IF t \in DOMAIN o.writes THEN o.writes[t] ELSE trades[t]]
  /\ tradeEvents' = [t \in Trade |-> IF t \in DOMAIN o.log THEN Append(tradeEvents[t], o.log[t])
                                     ELSE tradeEvents[t]]
  /\ productEvents' =
       IF o.said THEN [productEvents EXCEPT ![p] =
                         Append(@, [status |-> o.row.status, trade |-> o.result.trade])]
       ELSE productEvents
  /\ UNCHANGED <<reviews, ledger>>

(* Everything the command wrote becomes visible at once. *)
Apply(r, o) ==
  LET p == Target(r) IN
  /\ products' = [products EXCEPT ![p] = o.row]
  /\ trades' = [t \in Trade |-> IF t \in DOMAIN o.writes THEN o.writes[t] ELSE trades[t]]
  /\ tradeEvents' = [t \in Trade |-> IF t \in DOMAIN o.log THEN Append(tradeEvents[t], o.log[t])
                                     ELSE tradeEvents[t]]
  /\ productEvents' =
       IF o.said THEN [productEvents EXCEPT ![p] =
                         Append(@, [status |-> o.row.status, trade |-> o.result.trade])]
       ELSE productEvents
  /\ ledger' = IF Keyed(r) THEN [ledger EXCEPT ![IdOf(r)] = o.result] ELSE ledger
  /\ UNCHANGED reviews

(* answered: the client gets the result; otherwise the commit succeeded    *)
(* but the answer (or the answer of the database) was lost.                *)
Commit(w, answered) ==
  LET r == tx[w].req
      o == tx[w].out
  IN
  /\ tx[w].pc = "commit"
  /\ Apply(r, o)
  /\ replies' = IF answered THEN [replies EXCEPT ![r] = @ \cup {o.result}] ELSE replies
  /\ tx' = [tx EXCEPT ![w] = Idle]
  /\ Release(w)
  /\ UNCHANGED <<sent, caught>>

(* A review is one autocommitted INSERT, unique per trade. *)
InsertReview(w) ==
  LET r == tx[w].req IN
  /\ tx[w].pc = "insert"
  /\ r.trade \notin reviews
  /\ reviews' = reviews \cup {r.trade}
  /\ tx' = [tx EXCEPT ![w] = Idle]
  /\ UNCHANGED <<products, trades, ledger, tradeEvents, productEvents,
                 keyLock, rowLock, sent, replies, caught>>

(* Publishing is one transaction that inserts a product nobody knows yet.  *)
Publish(r) ==
  /\ r.op = "product.create"
  /\ sent[r] < MaxSends(r)
  /\ sent' = [sent EXCEPT ![r] = @ + 1]
  /\ \E p \in Product :
       /\ products[p] = NoProduct
       /\ products' = [products EXCEPT ![p] =
            [seller |-> r.actor, price |-> r.price, status |-> "ON_SALE", version |-> 1]]
  /\ UNCHANGED <<trades, reviews, ledger, tradeEvents, productEvents,
                 keyLock, rowLock, tx, replies, caught>>

(* The row or the state a command needs is not there: it ends in an error. *)
Refuse(w) ==
  /\ \/ tx[w].pc = "lock" /\ products[Target(tx[w].req)] = NoProduct
     \/ tx[w].pc = "find" /\ ~Found(tx[w].req)
     \/ tx[w].pc = "work" /\ Command(tx[w].req, tx[w].row, FreshTrade) = {}
     \/ tx[w].pc = "insert" /\ tx[w].req.trade \in reviews
  /\ RollBack(w, Idle)
  /\ UNCHANGED caught

(* An error, a deadline or a crash, at any step. *)
Fail(w) ==
  /\ tx[w].pc # "idle"
  /\ RollBack(w, Idle)
  /\ UNCHANGED caught

-----------------------------------------------------------------------------
Init ==
  /\ products = [p \in Product |-> NoProduct]
  /\ trades = [t \in Trade |-> NoTrade]
  /\ reviews = {}
  /\ ledger = [c \in Abs!CommandId |-> NoResult]
  /\ tradeEvents = [t \in Trade |-> << >>]
  /\ productEvents = [p \in Product |-> << >>]
  /\ keyLock = [l \in KeyLocks |-> Free]
  /\ rowLock = [p \in Product |-> Free]
  /\ tx = [w \in Worker |-> Idle]
  /\ sent = [r \in Request |-> 0]
  /\ replies = [r \in Request |-> {}]
  /\ caught = {}

Step(w) ==
  \/ LockKey(w) \/ Replay(w) \/ Miss(w) \/ Find(w) \/ LockProduct(w) \/ Work(w)
  \/ \E answered \in BOOLEAN : Commit(w, answered)
  \/ InsertReview(w)

Next ==
  \/ \E r \in Request : Publish(r)
  \/ \E w \in Worker :
       \/ \E r \in Request : Begin(w, r)
       \/ Step(w)
       \/ Refuse(w)
       \/ Fail(w)

Spec == Init /\ [][Next]_vars

(* A request that is being served goes on: the goroutine runs and the      *)
(* database answers.  Nothing makes a request fail.  Waiting for a lock    *)
(* needs no stronger fairness because clients send finitely often.         *)
FairSpec == Spec /\ \A w \in Worker : WF_vars(Step(w)) /\ WF_vars(Refuse(w))

-----------------------------------------------------------------------------
(* Properties. *)

(* Every interleaving, retry and failure of the transactions behaves like  *)
(* one command of Marketplace at a time.                                   *)
ImplementsMarketplace == Abs!Spec

(* The two locks alone order the commands: the unique indexes, the version *)
(* check and the ledger key never have to refuse a write.                  *)
LocksSuffice == caught = {}

(* A client that was told its keyed command succeeded can rely on it: the  *)
(* result is in the ledger, so every later answer to the same command id   *)
(* is the same one.                                                        *)
RepliesAreDurable ==
  \A r \in Request : Keyed(r) => \A x \in replies[r] : ledger[IdOf(r)] = x

(* Locks are always given back and never waited for in a circle: every     *)
(* request that is begun comes to an end, without the help of a deadline.  *)
RequestsEnd == \A w \in Worker : (tx[w].pc # "idle") ~> (tx[w].pc = "idle")
=============================================================================
