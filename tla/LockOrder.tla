-------------------------------- MODULE LockOrder --------------------------------
(***************************************************************************)
(* The row and advisory locks of the Marketplace database.  Commands lock  *)
(* their idempotency key, then the Product row, then Trade rows, always    *)
(* FOR UPDATE.  Comments and reviews are single INSERTs, but their foreign *)
(* keys make PostgreSQL lock the rows they refer to FOR KEY SHARE, in the  *)
(* order the columns are declared: for a review the trade, then the        *)
(* product.  What the transactions do between the locks is left out: any   *)
(* of them may lock whatever the code could make it lock, and any of them  *)
(* may be given up at any moment.                                          *)
(***************************************************************************)
EXTENDS Integers, FiniteSets

CONSTANTS
  Tx,           \* open transactions
  Product,      \* product rows
  Trade,        \* trade rows, numbered as their ids are ordered
  ProductOf,    \* the product of each trade
  LockNumber,   \* advisory lock numbers of idempotency keys
  Kind          \* what transactions do: a subset of AnyKind

AnyKind == {"act", "accept", "create", "mutate", "comment", "review"}

ASSUME LockOrderAssumption ==
  /\ Trade \subseteq Nat /\ IsFiniteSet(Trade)
  /\ ProductOf \in [Trade -> Product]
  /\ Kind \subseteq AnyKind
  /\ Product \cap Trade = {} /\ Product \cap LockNumber = {}
  /\ Trade \cap LockNumber = {}

VARIABLES
  tx,     \* what each transaction does and which lock it needs next
  held    \* locks that are held: [tx, row, mode]

vars == <<tx, held>>

Row == Product \cup Trade \cup LockNumber
Mode == {"update", "key_share"}
Idle == [pc |-> "idle"]

TradesOf(p) == {t \in Trade : ProductOf[t] = p}
Lowest(S) == CHOOSE t \in S : \A u \in S : t <= u
ModeOf(kind) == IF kind \in {"comment", "review"} THEN "key_share" ELSE "update"

(* FOR KEY SHARE only conflicts with FOR UPDATE. *)
Holders(x, row, mode) ==
  {h \in held : h.tx # x /\ h.row = row /\ "update" \in {h.mode, mode}}

(* The lock a transaction is about to take. *)
Wanted(x) ==
  CASE tx[x].pc = "key" -> tx[x].key
    [] tx[x].pc = "product" -> tx[x].product
    [] tx[x].pc = "trade" -> tx[x].trade
    [] tx[x].pc = "rivals" -> Lowest(tx[x].rivals)

Waiting(x) == tx[x].pc \in {"key", "product", "trade", "rivals"}

WaitsFor(x, y) ==
  /\ Waiting(x)
  /\ \E h \in Holders(x, Wanted(x), ModeOf(tx[x].kind)) : h.tx = y

-----------------------------------------------------------------------------
Init ==
  /\ tx = [x \in Tx |-> Idle]
  /\ held = {}

(* Take the wanted lock as soon as nobody holds it in a conflicting mode. *)
Take(x) ==
  /\ Holders(x, Wanted(x), ModeOf(tx[x].kind)) = {}
  /\ held' = held \cup {[tx |-> x, row |-> Wanted(x), mode |-> ModeOf(tx[x].kind)]}

Go(x, pc) == tx' = [tx EXCEPT ![x].pc = pc]

(* Accept, reject, cancel and confirm of a trade, with or without a key.   *)
BeginAct(x) ==
  \E kind \in {"act", "accept"} \cap Kind, t \in Trade, k \in LockNumber :
    /\ tx[x] = Idle
    /\ \E pc \in {"key", "product"} :
         tx' = [tx EXCEPT ![x] = [pc |-> pc, kind |-> kind, key |-> k,
                                  product |-> ProductOf[t], trade |-> t]]
    /\ UNCHANGED held

BeginCreate(x) ==
  \E p \in Product, k \in LockNumber :
    /\ "create" \in Kind
    /\ tx[x] = Idle
    /\ \E pc \in {"key", "product"} :
         tx' = [tx EXCEPT ![x] = [pc |-> pc, kind |-> "create", key |-> k, product |-> p]]
    /\ UNCHANGED held

(* Product changes, and the comments people leave under a product. *)
BeginProduct(x) ==
  \E kind \in {"mutate", "comment"} \cap Kind, p \in Product :
    /\ tx[x] = Idle
    /\ tx' = [tx EXCEPT ![x] = [pc |-> "product", kind |-> kind, product |-> p]]
    /\ UNCHANGED held

BeginReview(x) ==
  \E t \in Trade :
    /\ "review" \in Kind
    /\ tx[x] = Idle
    /\ tx' = [tx EXCEPT ![x] =
         [pc |-> "trade", kind |-> "review", product |-> ProductOf[t], trade |-> t]]
    /\ UNCHANGED held

LockKey(x) ==
  /\ tx[x].pc = "key"
  /\ Take(x)
  /\ Go(x, "product")

(* Mutant: the Product row is read without FOR UPDATE. *)
ReadProduct(x) ==
  /\ tx[x].pc = "product"
  /\ UNCHANGED held
  /\ \/ tx[x].kind \in {"act", "accept"} /\ Go(x, "trade")
     \/ tx[x].kind \in {"create", "mutate", "comment", "review"} /\ Go(x, "commit")

(* A creation also locks the intent its buyer has, if there is one. *)
LockProduct(x) ==
  /\ tx[x].pc = "product"
  /\ Take(x)
  /\ \/ tx[x].kind \in {"act", "accept"} /\ Go(x, "trade")
     \/ tx[x].kind \in {"create", "mutate", "comment", "review"} /\ Go(x, "commit")
     \/ /\ tx[x].kind = "create"
        /\ \E t \in TradesOf(tx[x].product) :
             tx' = [tx EXCEPT ![x] = [pc |-> "trade", kind |-> "create",
                                      product |-> @.product, trade |-> t]]

(* Accepting goes on to lock the pending intents it will cancel. *)
LockTrade(x) ==
  /\ tx[x].pc = "trade"
  /\ Take(x)
  /\ \/ tx[x].kind \in {"act", "create"} /\ Go(x, "commit")
     \/ tx[x].kind = "review" /\ Go(x, "product")
     \/ /\ tx[x].kind = "accept"
        /\ \E R \in SUBSET (TradesOf(tx[x].product) \ {tx[x].trade}) :
             tx' = [tx EXCEPT ![x] =
               IF R = {} THEN [pc |-> "commit", kind |-> "accept"]
               ELSE [pc |-> "rivals", kind |-> "accept", product |-> @.product, rivals |-> R]]

LockRival(x) ==
  /\ tx[x].pc = "rivals"
  /\ Take(x)
  /\ LET rest == tx[x].rivals \ {Wanted(x)}
     IN  tx' = [tx EXCEPT ![x] =
           IF rest = {} THEN [pc |-> "commit", kind |-> "accept"]
           ELSE [@ EXCEPT !.rivals = rest]]

(* Mutant: locks outlive the transaction that took them. *)
EndKeepingLocks(x) ==
  /\ tx' = [tx EXCEPT ![x] = Idle]
  /\ UNCHANGED held

(* Locks belong to the transaction and end with it. *)
End(x) ==
  /\ tx' = [tx EXCEPT ![x] = Idle]
  /\ held' = {h \in held : h.tx # x}

Commit(x) == tx[x].pc = "commit" /\ End(x)

(* An error, a deadline, or PostgreSQL breaking a circular wait. *)
Abort(x) == tx[x] # Idle /\ End(x)

-----------------------------------------------------------------------------
Begin(x) == BeginAct(x) \/ BeginCreate(x) \/ BeginProduct(x) \/ BeginReview(x)
Lock(x) == LockKey(x) \/ LockProduct(x) \/ LockTrade(x) \/ LockRival(x)

Next == \E x \in Tx : Begin(x) \/ Lock(x) \/ Commit(x) \/ Abort(x)

Spec == Init /\ [][Next]_vars

(* Of the transactions that compete for a free lock none is overtaken for   *)
(* ever.  Nothing makes a transaction abort.                               *)
FairSpec == Spec /\ \A x \in Tx : SF_vars(Lock(x)) /\ WF_vars(Commit(x))

Stuck(S) == S # {} /\ \A x \in S : \E y \in S : WaitsFor(x, y)
Circle(S) == Stuck(S) /\ \A R \in SUBSET S : Stuck(R) => R = S

(* PostgreSQL also breaks every circular wait, by aborting a transaction in *)
(* the circle, not one that merely waits for it.                           *)
DetectorSpec ==
  /\ FairSpec
  /\ \A S \in SUBSET Tx : WF_vars(Circle(S) /\ \E x \in S : Abort(x))

-----------------------------------------------------------------------------
(* Properties. *)

(* Product row before Trade rows, one key before both: among commands,     *)
(* product changes and comments no circular wait can arise, whatever they  *)
(* lock on the same products -- every circle has a review in it.           *)
OnlyReviewsDeadlock ==
  \A S \in SUBSET Tx : Circle(S) => \E x \in S : tx[x].kind = "review"

(* A transaction never waits in vain: it gets its locks, or is aborted to  *)
(* break a circle, and what it held is free for the next one -- unless the *)
(* comments and reviews of others follow so closely that the row somebody  *)
(* waits for is always shared by one of them.                              *)
Outrun(x) ==
  Waiting(x) /\ \E h \in held : h.row = Wanted(x) /\ h.mode = "key_share"
EveryoneFinishes ==
  \/ \A x \in Tx : []<>(tx[x] = Idle)
  \/ \E x \in Tx : <>[]Outrun(x)
=============================================================================
