# Short-Term: a TLA+ model

Short-Term is a campus second-hand market: a gateway, four Go services, each
with its own PostgreSQL database, and two outbox workers. This directory
models the parts of it that decide something under concurrency and failure,
checks them with TLC on small instances and proves the most important results
with TLAPS for every instance.

Paths in this file are relative to the repository.

## 1. Inventory

| Component | State | Operations | What makes it hard | What makes it correct |
|---|---|---|---|---|
| Trade commands (`services/marketplace`, `trade_service.go`, `trade_repository.go`) | `trades`, `products.status`, `idempotency_records`, `outbox_events` | create (or return) an intent, accept (cancels the competing intents), reject, cancel, confirm | two or more rows change together; commands race; clients repeat a command after a lost answer | product and trades never disagree; one deal per product; an effect happens once; events are the exact history |
| Product commands (`product_service.go`, `product_repository.go`) | `products` | publish, update, off-shelf, relist | race with intents on the same product | no price changes under an intent; a pending intent only on a product on sale |
| Images (`product_service.go`, `filesystem.go`) | `product_images`, object store | publish with images, add, delete | rows and objects share no transaction; statements meet a unique index one at a time | slots are 1..N; rows lose their objects only to a lost commit; orphans only after a fault |
| Buyer reviews (`trade_review_service.go`) | `trade_reviews` | create, once per completed trade | its foreign keys lock rows against the order of the commands | one per trade and per product |
| Comments (`comment_service.go`) | `product_comments` | create | its foreign key locks the product | - |
| Outbox workers (`outbox_service.go` of marketplace and messaging) | `published_at`, `attempts` | poll, publish, mark | crash between publishing and marking; several workers; undeliverable events | nothing lost, duplicates bounded, nobody held up for good |
| Account (`services/account`) | `accounts` | register, login (may rehash), edit profile, change password | read, work, write the whole row back, without a lock | a stored password is one its owner set; nothing an owner changed is lost, except to an older copy; contacts stay |
| Messaging (`services/messaging`) | `conversations`, `messages`, `idempotency_records`, `outbox_events` | open a conversation, send, mark read, page | both sides act at once; repeated sends; a clock that stands still; cursor pages over a growing list | one conversation per product and buyer; messages only appear at the end; only what was seen becomes read; a page walk skips nothing |
| Favorite (`services/favorite`) | `favorites` | add (asks Marketplace first), remove, list | repeated requests; identifiers of another service's database | idempotent; every entry can be shown |
| Gateway edge (`auth.go`, `rate_limit.go`, `router.go`, `validation.go`) | window of each client, time of the last sweep | authenticate, limit, read the body | concurrent requests whose clock readings arrive late; a bounded table; clocks of two machines | budgets hold; a full table is full of recent clients; Retry-After is kept; a token lives as long as it says |
| Gateway handlers and aggregation (`handler/*`, `aggregator.go`) | none between requests | 36 endpoints, each a sequence of checks and calls | a failure between two calls; errors that cross two services | a refusal left nothing behind; every status is declared; a 500 means a failed call, or a request holding what no check looks for; contact data reaches only the other party |
| Connection pools and RPC deadlines (`platform/pg`, `platform/grpcx`) | connections in use | begin, commit, call | Marketplace and Messaging call each other while they hold a connection | every request is answered |
| Identifiers (`platform/id`) | last identifier | new | same millisecond, carry, clock going back | increasing, carries included, until the random part is used up |
| Tokens and errors (`platform/auth`, `platform/errs`) | none | issue, verify, map | whole seconds of another machine's clock; three tables of codes | see edge and handlers |
| Web client, generated code, deployment | - | - | - | - |

How they interact: the gateway calls the services over gRPC, several calls per
request, each with its own deadline. Marketplace asks Messaging for a
conversation inside the transaction that creates an intent; Messaging asks
Marketplace for the product of a conversation inside its own; Favorite asks
Marketplace for a product before its transaction. Marketplace and Messaging
write events to an outbox table in the same transaction as the change; the
workers read it. Services share no database.

## 2. Modules

| Module | Models | Level |
|---|---|---|
| `Marketplace` | what one committed command does to the product, trade, review, ledger and outbox tables | abstract: a command is one atomic step |
| `TradeTx` | the transactions behind those commands: advisory lock, ledger lookup, Product lock, work, commit, lost answers, failures, retries | detailed: implements `Marketplace` |
| `LockOrder` | the row and advisory locks alone, with those of foreign keys, and the waits between transactions | lock requests |
| `ProductImages` | image rows and objects of one product, statement by statement | detailed |
| `Outbox` | the workers and the events they publish | detailed |
| `Account` | account rows and the requests that copy, change and write them back | read and write apart |
| `ConversationLog` | what Messaging promises: one list of messages per product and buyer, and which of them are read | abstract |
| `Messaging` | conversations, messages, ledger, outbox, locks, failures and restarts | detailed: implements `ConversationLog` |
| `IdGenerator` | the state and the step of the identifier generator, its random part byte by byte | operators, used by `Messaging` |
| `Contract` | routes, rate classes, kinds of body, error codes with their gRPC and HTTP statuses, the statuses the API description declares | operators |
| `Edge` | authentication, the rate limiter and the reading of bodies, for concurrent requests | detailed |
| `Services` | what each RPC of the four services refuses, changes and answers, around one product | operators, used by `Gateway` |
| `Gateway` | every endpoint as its checks and calls, with connections, deadlines and calls nobody waits for | composition of the services |
| `MarketplaceProofs`, `TradeTxProofs`, `LockOrderProofs`, `ProductImagesProofs`, `OutboxProofs`, `MessagingProofs`, `EdgeProofs`, `GatewayProofs` (with the theorems of `Account`) | theorems | proofs |
| `MC*` | instances: model values, requests, symmetry | TLC |

`Services` extends `Contract`, `Gateway` extends `Services`, `Edge` extends
`Contract`, and `Messaging` extends `IdGenerator`.

### Marketplace

`products`, `trades`, `reviews` and `ledger` are the tables of the same names;
`tradeEvents` and `productEvents` are the outbox rows of each aggregate in
commit order. There is one action per outcome of a command: `Accept` is
`TradeService.Accept` with the competing cancellations, the product
reservation and every event; `CancelPending` and `CancelAccepted` are the two
branches of `Cancel`; `ConfirmOneSide`, `ConfirmAndComplete` and
`ConfirmCompleted` those of `Confirm`; `CreateTrade` and `ReadIntent` those of
`Create`. A keyed command runs only if its id has no stored result (`Fresh`)
and stores one (`Record`). Refused commands roll back and replays change
nothing, so both are stuttering. The schema's unique indexes and CHECKs are
deliberately no guards: the invariants say the code does not need them.

Data left out: titles, categories, descriptions, reasons, timestamps and the
text and score of reviews. Prices are opaque. A conversation is either the one
of this product and pair, or none.

### TradeTx

Each `Worker` is one request on one connection, with a `pc`: `key` (waits for
the advisory lock of its key), `ledger`, `find` (reads the trade's product
without a lock), `lock` (waits for the Product row), `work` (runs the callback
of the command), `commit`. A command is the set of outcomes it may have
(`When(checks, outcome)`: none if a check refuses it, and one for each new
identifier where it creates a row); `Work` picks one of them. What the callback
writes stays in the worker (`out`) until the commit makes all of it visible, as READ COMMITTED does.
`Fail` can strike at every step; `Commit(w, FALSE)` is a commit whose answer
is lost; `Begin` sends a request up to `MaxSends` times. `Refusals` lists what
the schema and the version column would refuse, and `caught` remembers
whether they ever had to. `LockId` is the 32-bit hash of a key: in the runs all
keys of the seller collide, and the buyers' do not.

`Abs == INSTANCE Marketplace` with `products` stripped of the version column is
the refinement mapping, and `ImplementsMarketplace == Abs!Spec` the property.

### LockOrder

Transactions lock a key, a product and trades, as their kind makes them; what
they do in between is left out, so they may lock whatever the code might make
them lock. `FOR UPDATE` conflicts with everything, `FOR KEY SHARE` (which
foreign keys take) only with `FOR UPDATE`.

### ProductImages

A request stores its objects (`Put`), takes the Product lock and computes the
new numbering (`LockProduct`), writes row after row (`DeleteRow`, `WriteRow`,
each checked against the unique slot index), commits, and erases or discards
objects afterwards. Publishing inserts its rows without a lock, since nobody
knows the product yet. `CommitLost` is a commit that took place but reported an
error; the history variable `lost` remembers that there was one.

### Outbox

A worker polls the oldest `BatchSize` pending events, publishes each, then
marks it. `Interrupted` is a crash, or a failed mark, which makes `DrainOnce`
return; both forget the rest of the batch. Events are numbered in the order
the poll sorts them; `CommitEvent` may add an event below older ones, as the
clock is read before a command waits for its lock.

### Account

Every operation on an existing account is split into the read with its checks
(`UpdateProfile`, `ChangePassword`, `Login`) and the full-row `Write`. A request
remembers what it asks for (`asks`), as the code does in its command, besides
the copy of the row it will write. Four history variables see what the rows do
not tell: `chosen`, the passwords the owner ever set; `told`, the last value the
owner gave each column; `since`, the columns others have set since a request
read its row; and `undone`, the columns in which an older copy has been written
over a newer value, until the owner sets them again. Numbers stay unique because
the table's index refuses a second one, which `Register` takes over from the
schema (`000001_account.up.sql`); no property is about it. The specification is
`AccountSpec`, and its parts are named likewise, since `GatewayProofs` extends
both this module and `Gateway`.

### Messaging

A `Worker` is one request on one connection, with a `pc` as in `TradeTx`: it
takes the advisory lock of its key, looks in the ledger, locks the conversation
row (or inserts it, waiting for an uncommitted insert of the same kind), works,
and commits everything at once. The clock `now` and the generator `last` are
shared by the process and read where the code reads them, which is after the
row lock: that is why messages can only appear at the end of their order. A
restart of the process forgets `last`, as the code keeps it nowhere. The clock
stands still or goes on; one that is set back would put a new message below old
ones (`created_at` is the first key of their order), and is left out. `walk` is
a client that pages backwards through a conversation; `answers` are the results
clients may have received, lost ones included; `cmd` in a message row remembers
the request that wrote it and is no column.

Three assumptions describe what the module is for. `RequestAssumption` is the
shape of requests. `KeyAssumption`: a client uses a key for the conversation of
one product. The ledger does not compare the content of a request with the one
it recorded, so a client that took the key of one product for another would be
answered with the conversation of the first. `RandomAssumption`: what is drawn
for the random part leaves room for the increments of one millisecond, two for
each request; of 80 bits the code draws all, so the case it leaves out has the
probability of drawing one of the last few of 2^80 numbers. `IdGenerator` has
the random part as `Bytes` bytes: `Increment` adds one to the last and carries
on as long as a byte became 0, `Lower` is the order of the encoded strings, and
`Room` counts the increments that are left.

`LimitAssumption`: a page has room for a message
(`normalizeMessageLimit` sees to it).

A listing is a function of ranks: at position `i` is the row with `i` rows up
to it (`OldestFirst`), or from it (`NewestFirst`, the ORDER BY of the query).
`Log` maps the tables to `ConversationLog`: the log of a product and buyer is
the messages of their conversation in the order of the listing, and `read` the
positions whose `read_at` is set. Contents, previews and the query of the
conversation list are left out.

### Contract, Services and Gateway

`Contract` states the routes with the identifiers of the API description, and
how an error code becomes a gRPC status with a detail, comes back, and becomes
an HTTP status (`Wire`, `FallbackCode`, `StatusFor`).

`Services` gives for every RPC the refusal it answers with, in the order of the
checks (`Refusal`), its effect (`Effect`) and what the handler learns from the
answer (`Learned`). A refusal is a code or `OK`; in a chain `first ?? next ?? ...`
the first that is not `OK` answers, as a handler returns its first error. The
state `db` (`Database` is its type) is seen through one product, its one trade,
its conversation, and everybody's favorites: the component modules cover many
of each, and here the question is what a sequence of calls does. A request has
at most one `flaw`, which the step that looks for it notices. Four flaws are
looked for nowhere, or not everywhere (`Unnoticed`): an identifier or a text
with a NUL, which no table or directory takes (`UnfitId`, `UnfitText`), a page
whose offset overflows (`PageOverflows`), and text that is not UTF-8, which no
message to a service can hold (`Unsent` in `Gateway`). The conversation an
intent names may be left out, null, one that exists or not, or one with a NUL
(`"illegal"`), which Messaging refuses as a validation error
(`RefuseGetConversation`) and Marketplace passes on as INTERNAL_ERROR
(`Gateway!InnerCode`).

Two assumptions keep the requests and the states to start from within this
view. `RequestAssumption`: a request is well formed; intents and conversations
are opened by one of the two parties only, since there is one trade and one
conversation to open (`Marketplace` and `Messaging` have many of each); and who
publishes has an account, as the token says whose it is and accounts are never
deleted. `StartAssumption`: where there are favorites or a conversation there
is a product, as products are never deleted either.

In `Gateway`, `Plan` has a sequence of steps for each route, in the order of
the handler: checks of the handler itself, and calls, some of which are made
only if an earlier answer asks for them (`If`). A call takes a connection
(`Connect`), may call another service while it holds it (`CallInner`), and
commits and answers in `Reply`. `GiveUp` is every way a call can fail, its
deadline included: the handler answers at once, and what it left behind is an
*orphan* that keeps its connections until it notices (`Land`) and may still
commit if only the commit was left. `fault`, in the record of a request that was
answered, is a history variable: whether a call of it failed. Outside the model: fields, formats, the
liveness and readiness endpoints, metrics and the media handler, which reads
files only.

### Edge

A request is authenticated (`Arrive`), reads the clock, and waits for the
mutex of the limiter with that reading; `Admit`, `RefuseNewClient` and
`RefuseSpent` are the outcomes of `Allow`, each beginning with the sweep, which
happens at most once per window (`Swept`). Then the body is read with the limit
of the middleware around every reader, and the limit of forms inside it
(`Room`). The size of a JSON body is that of its value: the decoder stops behind
it, and white space after it is never counted; an optional body that is absent
is not read, one that is empty but sent in chunks is (`ReadsBody`). `admitted` and `promised` are history variables: what was let
through, and when a refused client was told to come back. Token times are whole
seconds of the Account service's clock (`Issue`), which may differ from the
Gateway's by `Skew`.

## 3. Runs

| Run | Config | Checks | Shows |
|---|---|---|---|
| commands | `MCMarketplace.cfg` | `TypeOK`, `ReservationMatchesTrade`, `OneDealPerProduct`, `OneActiveIntent`, `TradeEventsTellStatus`, `ProductEventsTellDeal`, `OneReviewPerProduct`, `HistoryIsFinal` | three users and three intents on two products, no keys, one price |
| keys | `MCMarketplaceKeys.cfg` | `LedgerTellsTruth`, `OneRecordedEffect` | one key for everything, two competing buyers |
| tx_race | `MCTradeTxRace.cfg` | `ImplementsMarketplace` | two transactions at a time, without keys: intents against edits, withdrawals and an acceptance |
| tx_retry | `MCTradeTxRetry.cfg` | `LocksSuffice`, `RepliesAreDurable`, `ImplementsMarketplace`, `RequestsEnd` | one deal and everything that can end it; the keyed creation is sent twice, two keys share a lock number |
| lock_order | `MCLockOrder.cfg` | `OnlyReviewsDeadlock`, `EveryoneFinishes` | three transactions of every kind, two products, three trades |
| outbox | `MCOutbox.cfg` | `PublishedWasDelivered`, `DuplicatesBounded`, `EventuallyPublished` | two workers, one undeliverable event, two faults |
| account | `MCAccount.cfg` | `PasswordsAreTheOwners`, `LastChangeIsKept` | one account, two overlapping requests, two passwords and nicknames, a contact |
| images | `MCProductImages.cfg` | `SlotsContiguous`, `IndexNeverRefuses`, `MissingObjectsNeedLostCommit`, `OrphansNeedFaults` | two overlapping requests, room for three images, two faults |
| messaging | `MCMessaging.cfg` | `ImplementsLog`, `WalksAreSnapshots`, `AnswersAreTrue`, `SentOnce`, `EventsTellMessages` | a buyer who opens the conversation twice and a seller, two requests at a time, five sends, pages of one message, random parts of two bytes of four values |
| edge | `MCEdge.cfg` | `TwoWindowsAtMost`, `FullTableIsRecent`, `RetryAfterIsKept`, `SessionsLastAsTold` | three limited clients, a table for two, readings late by one tick |
| gateway | `MCGateway.cfg` | `RefusalsAreClean`, `OnlyFaultsFail`, `AnswersWithinContract`, `ContactsStayBetweenParties`, `EveryRequestAnswered` | every endpoint, role, flaw and kind of conversation from eight states of a deal; pairs of requests whose services call each other, one connection each |

One run shows that the code does not do what a comment says:

| Run | Property | What happens |
|---|---|---|
| account_contact | `ContactsStay` | overlapping profile edits delete a contact that was filled in |

**Bounds.** Two requests at a time are enough for every pairwise race, and all
conflicts in this code are between two lock holders of one row; `lock_order`
uses three transactions because a circle of waits may need more than two.
Three intents on two products allow an accepted one, a competing one that is
cancelled with it, a later one by the same buyer, and one on another product.
`MaxSends` (how often requests are sent), `MaxFaults` (two) and the number of
identifiers bound the runs; each is named in its module. In `messaging` five
sends are two openings, two messages and a reading in any order, or a message
repeated; a page holds one message, so that three messages need three pages,
and `MaxTime` is 2 so that two of them must share a millisecond; bytes of four
values make identifiers carry. In `account` one account is enough, since no
operation reads or writes the row of another; two requests on it are the
shortest way to a stale copy. In `edge` a
table for two meets three clients, eight ticks are two windows, and a second is
two ticks so that it can be cut. In `gateway` single requests come from every
state, and the requests that meet (`Meet`) are those that call from service to
service and a cancellation that changes what they look at; with one connection
per pool two of them already hold everything. Users, keys, prices, identifiers
and workers are symmetric where a run has no liveness property; the runs with
one use no symmetry. Runs whose clients stop after their last request, or whose
clock stops, do not check for deadlock; each of these cfgs says so.

**Fairness.** `TradeTx!FairSpec`: a request that can go on does (the goroutine
runs and the database answers); nothing forces a request to fail, and no
deadline is needed. `LockOrder!FairSpec`: of the transactions that compete for
a free lock none is overtaken for ever (strong fairness of `Lock`);
`DetectorSpec` adds that every circle of waits is broken by aborting one of its
members, which PostgreSQL's deadlock detector does. Nothing is assumed about a
transaction that wants a row alone while others keep sharing it:
`EveryoneFinishes` allows that it is outrun, and TLC does find it without that
exception. `Outbox!FairSpec`: the worker keeps
polling (its loop has no exit but shutdown), and an event that is not refused
for good is taken after finitely many tries. `Gateway!Fairness`: handlers and
services run (`Proceed`), a call that stays unanswered reaches its deadline
(`GiveUp`; `grpcx` sets one on every call), and a transaction whose caller is
gone ends (`Land`; its context is cancelled). `EveryRequestAnswered` needs the
deadlines: two requests can hold the only connections of Marketplace and
Messaging and wait for each other's, and nothing else ends that wait.

## 4. Proofs

| Theorem | Statement | Assumptions |
|---|---|---|
| `MarketplaceProofs!TypeCorrect` | `Spec => []TypeOK` | none used |
| `MarketplaceProofs!DealCorrect` | `Spec => [](ReservationMatchesTrade /\ OneDealPerProduct /\ OneActiveIntent /\ LivePriceIsCurrent)` | none used |
| `MarketplaceProofs!OneDeal`, `OneIntent` | `Spec => []OneDealPerProduct`, `Spec => []OneActiveIntent` | none used |
| `MarketplaceProofs!EventsTellStatus` | `Spec => []TradeEventsTellStatus` | none used |
| `MarketplaceProofs!ProductEventsCorrect` | `Spec => []ProductEventsTellDeal` | none used |
| `MarketplaceProofs!LedgerCorrect`, `OneEffect` | `Spec => [](LedgerTellsTruth /\ OneRecordedEffect)`, `Spec => []OneRecordedEffect` | none used |
| `MarketplaceProofs!ReviewsCorrect` | `Spec => []OneReviewPerProduct` | none used |
| `MarketplaceProofs!HistoryFinal` | `Spec => HistoryIsFinal` | none used |
| `TradeTxProofs!TransactionsAreCommands` | `Spec => ImplementsMarketplace` | `RequestAssumption` |
| `TradeTxProofs!TheLocksSuffice` | `Spec => []LocksSuffice` | `RequestAssumption` |
| `TradeTxProofs!AnswersAreDurable` | `Spec => []RepliesAreDurable` | `RequestAssumption` |
| `LockOrderProofs!CirclesNeedReviews` | `Spec => []OnlyReviewsDeadlock` | `LockOrderAssumption` |
| `ProductImagesProofs!NumberingHolds` | `Spec => []SlotsContiguous` | `ImagesAssumption`, `WorkerAssumption` |
| `ProductImagesProofs!IndexIsQuiet` | `Spec => []IndexNeverRefuses` | the same |
| `ProductImagesProofs!SeenImagesExist` | `Spec => []MissingObjectsNeedLostCommit` | the same |
| `ProductImagesProofs!OrphansAreBounded` | `Spec => []OrphansNeedFaults` | the same |
| `OutboxProofs!NothingIsLost` | `Spec => [](TypeOK /\ PublishedWasDelivered)` | `OutboxAssumption` |
| `OutboxProofs!DuplicatesAreBounded` | `Spec => []DuplicatesBounded` | `OutboxAssumption` |
| `GatewayProofs!PasswordsCorrect` | `AccountSpec => []PasswordsAreTheOwners` | none used |
| `GatewayProofs!ChangesLast` | `AccountSpec => []LastChangeIsKept` | `NullAssumption` |
| `MessagingProofs!AnswersStayTrue` | `Spec => []AnswersAreTrue` | `RequestAssumption`, `KeyAssumption`, `RandomAssumption`, `EntropyAssumption` |
| `MessagingProofs!KeyedMessagesSentOnce` | `Spec => []SentOnce` | the same |
| `MessagingProofs!EventsTell` | `Spec => []EventsTellMessages` | the same |
| `MessagingProofs!WalksSeeOneMoment` | `Spec => []WalksAreSnapshots` | the same, and `LimitAssumption` |
| `MessagingProofs!LogIsImplemented` | `Spec => ImplementsLog` | the same |
| `MessagingProofs!IncrementIsNext`, `NewIncreases`, `LessIsStrictTotalOrder` | about `Increment`, `New` and `Less` of `IdGenerator` | `EntropyAssumption` |
| `EdgeProofs!LimiterBounded` | `Spec => []TableBounded` | `LimitAssumption` |
| `EdgeProofs!PeriodsBounded` | `Spec => []TwoWindowsAtMost` | `LimitAssumption` |
| `EdgeProofs!RoomIsRecent` | `Spec => []FullTableIsRecent` | `LimitAssumption` |
| `EdgeProofs!PromisesAreKept` | `Spec => []RetryAfterIsKept` | `LimitAssumption` |
| `EdgeProofs!SessionsHold` | `Spec => []SessionsLastAsTold` | `LimitAssumption`, `ClockAssumption` |
| `GatewayProofs!RefusedRequestsLeaveNothing` | `Spec => []RefusalsAreClean` | `RequestAssumption`, `StartAssumption` |
| `GatewayProofs!ErrorsComeFromFaults` | `Spec => []OnlyFaultsFail` | the same |
| `GatewayProofs!AnswersKeepTheContract` | `Spec => []AnswersWithinContract` | the same |
| `GatewayProofs!ContactsAreForParties` | `Spec => []ContactsStayBetweenParties` | the same |

In every module the theorems of a component follow from one inductive
invariant (`IInv`, or the parts named below), which TLC checked on the
instances before it was proved.

**Marketplace.** `DealCorrect`: the four invariants are inductive only together, and with
`TypeOK`. Accepting needs that a pending intent implies a product on sale
(else a second deal could start), cancelling and completing need that the
accepted trade is the only one of its product (else releasing or selling the
product would leave another accepted), and editing a price needs that no
accepted or completed trade exists while the product is on sale or off shelf.
Products, trades and keys are arbitrary sets, so the theorem covers what no
instance can: any number of competing buyers and of deals in a product's life.

The second part of the module shows once what every command does to one trade
(`TradeStep`: it stands still, begins, or moves along one edge of its life with
the event of that edge), to one product (`ProductStep`: quiet, or a deal with
its event) and to the ledger (`StoresTruth`: nothing, or one true result under
a fresh id), and the theorems follow from these three. `EventsTellStatus` is
inductive alone. `LedgerCorrect` needs two more facts: both sides have
confirmed a completed trade (`CompletedIsConfirmed`), since a later
confirmation stores what an earlier one did; and truth survives every edge
(`TruthStays`). That no effect is recorded twice then follows: what a second
record would need of the trade contradicts what is true after the first.
`ReviewsCorrect` uses `OneDealPerProduct`, and `HistoryFinal` the edges that do
not exist.

**TradeTx.** A request in progress holds its locks (`Holds`), and what it knows
stays true while it does (`Knows`): the row it read is the row of the table,
its command id has no result, and once it is about to commit, its outcome is
one that its command still chooses on the tables as they are. The last is the
heart: another commit changes neither the locked product, nor its trades, nor
the ledger slot under the key lock, and everything a command decides on is one
of these. `Apart` adds that two creations never take the same new trade.
`LocksSuffice` and `RepliesAreDurable` are then parts of the invariant. For the
refinement each commit is matched with the command of `Marketplace` whose guard
and effect it has (one lemma per command), on `products` without the version;
the other steps change no table and stutter. What is proved is the safety part
of `Marketplace`, which has no fairness.

**LockOrder.** `CirclesNeedReviews`: the invariant says that conflicting locks have one owner,
that whoever holds a trade (and is no review) holds its product for update, and
what a transaction holds at each step. In a set without reviews, one that waits
for a trade would wait for a second owner of its own product, so nobody does;
then one that waits for a product waits for one that holds only a key, which is
impossible; and those that wait for a key hold nothing at all.

**ProductImages.** A request that writes has a plan: the numbering it started
from (`mine`), the one it will commit (`goal`), and how far it is; `PlanOK` says
that what it has written so far agrees with `goal` below its position and with
`mine` above, and that the committed rows are still `mine`, since it holds the
lock or nobody else knows the product (`BirthOK`). Removing an image moves the
rows above it down one by one, each into a slot its predecessor has just left:
that is why the index stays quiet, and it is proved for every number of images
from what the cardinality of the rows is. `OrphansOK` charges each orphan to
the fault that made it.

**Outbox.** `NothingIsLost`: `PublishedWasDelivered` is not inductive alone;
`HandInv` adds that a worker about to mark an event has delivered it.
`DuplicatesAreBounded`: a worker has a *turn* left on an event if it could
still publish it; `TurnsCounted` says that deliveries and remaining turns of an
event are at most the workers and the faults. A delivery spends a turn, a fault
may restore one, and nothing else does, since batches are sorted
(`BatchesIncrease`) and a worker is past an event when it is past a newer one.

**Account.** The copy a request is going to write may be out of date in every
column, but its password is one the owner set, perhaps an old one
(`CopiesAreOwn`), and its student number, which no operation changes, is that of
the account, so that what is written back is never taken for a missing account
(`NumbersAreReal`). `ChangesLast` needs to know what else is right in a copy
(`UpToDate`): it has what the request asks for, and in the other columns what
the owner was last told, unless somebody has set the column since the row was
read, or the row was already out of date in it. A write then spoils no column
but those in `since`, which it adds to `undone`.

**Messaging.** The invariant has four parts. `ControlInv`: what a request knows
at each step, that each lock has one owner, that the key of a command that runs
has no result, and a budget of identifiers: each begun request may make two
more, and the last random part has room for as many (`Room`, which an increment
lowers by exactly one: it is the next value in the order, `IncrementIsNext`), so
it is never used up within one millisecond. `Writing`:
what waits for a commit is still right on the tables as they are, since the row
lock freezes a conversation until then; a first conversation is frozen by its
uncommitted insert. `TableInv`: every identifier in a table was `Made` before
the next one; the identifiers of a message and its event are neighbours, with
no other pair between them (`PairsApart`, pending ones included), so sorting
messages and sorting events give the same order; and what one side has read of
the other is its older part (`ReadIsPrefix`), so the newest message read, which
its event names (`ReadIsTold`), tells how far. `ResultInv`: stored results and
answers are true. `LocksOK`, `Writing` and `LedgerTrue` quantify over
everything, which TLC cannot enumerate; a form of them with the bounds of
`TxOK` was checked in their place.

The listings rest on one lemma: the oldest part of a listing is listed the same
with and without the younger rows (`PrefixListed`), which is a matter of
cardinalities, and a listing's identifiers depend on nothing but identifiers
(`SameIdsListed`). A page ends at a cursor, and what is older than the cursor is
a prefix of the old listing turned round: `PageCuts` puts the two together.
Between pages a message may appear, but above the cursor, or some be marked,
which changes no identifier (`OlderStays`). For the refinement a commit does one
of three things to the messages (`CommitOnMessages`): nothing; one message
appears above all others of its conversation, which is then the last entry of
the log (`LogGrows`); or rows of one side through an anchor are marked, which
are those at positions up to the anchor's with its sender, since a conversation
has two parties and nobody marks his own (`LogIsRead`).

**Edge.** `LimiterBounded`: `TableInv` adds that the table is finite and that whoever
waits for the limiter belongs to a class with a budget. A sweep only shrinks
the table, whatever reading it is done with, so the bound survives readings out
of order; an expired entry keeps its place until then, which is why the test of
the table's size is enough.

The other limiter theorems follow from `LimiterInv`. `Clocks`: a reading is at
most `Delay` late. `WindowsOK`: what a client was let through with since its
window started is what its entry counts, and nothing of an earlier window lies
less than a window, but for late readings, before it; a client without an entry has only windows that
ended. `PeriodsOK`, a period shorter than two windows by the delays meets two
windows at most, and each has one budget. `EntriesOK`: an entry began less than
a window before the last sweep, with an admission, so a full table is one of
clients admitted lately. `PromisesOK`: whoever was refused was told a time
after the end of the window, rounded up. `SessionsHold` needs no invariant: it
is about whole seconds, the lifetime and the tolerance alone.

**Gateway.** The runs let two requests meet; the theorems are for any number of
them, for any connections, and for any pair of requests that may meet. The
proof is in two halves that meet in a few predicates.

The first half is about the 36 routes, one by one (`RoutesSound`). `Answers`:
no step can refuse with a status its endpoint does not answer with. `Settles`:
after a step that changes something come only steps that refuse nothing, or the
look-up of a seller whose product has just been changed. `Prepared`: what a step
relies on has been done before it, such as the call about the trade before its
contact data, or the look-up of the product before what shows it.

The second half never looks into a route. `Denies` says which codes each call
may refuse with (INTERNAL_ERROR only to a request that is `Excused`: one with a
flaw in `Unnoticed`, or an illegal conversation), `Leaves` that no call takes a product or a trade away or leaves
a favorite without a product, `Learns` what an answer tells. With these the
invariant is: a request that has called for something knows it to be there,
*now*, although others act in between (`Knows`: this is where `Leaves` is
needed); a request that has changed something has nothing left on its route
that could refuse it (`Settled`); an answer keeps the contract, and is no
refusal if something was committed, and is 500 only after a failed call or to a
request with what no check looks for (`AnswerOK`); and an orphan belongs to a
request that was answered 500, and what it may still commit is still right
(`OrphanOK`: a late `AddFavorite` needs the product it was told of). No service
is ever assumed to answer: `GiveUp` may strike at every call.
`RefusalsAreClean` is `AnswerOK` and `OrphanOK` together, `OnlyFaultsFail` is the
last part of `AnswerOK`, for which the checks of the handlers that could answer
500 themselves (`favorites`, `conversation`) never do so because of `Prepared`
and `Knows`, and `ContactsStayBetweenParties` combines these two.

**Only model-checked.** Liveness and everything that depends on fairness
(`RequestsEnd`, `EveryoneFinishes`, `EventuallyPublished`,
`EveryRequestAnswered`; the provers cannot reason about ENABLED).
`ContactsStay` is refuted by its run. Every other property of a run is stated
by a theorem above.

## 5. Where code and documents differ

Differences met while modelling, besides `account_contact`; they are visible in
the modules named here.

- *Lifetime of an intent.* `docs/software-design.md:298` and `:463` (and the
  comment at `trade_port.go:38`) call a buyer's intent on a product unique for
  life; migration `000007` and `TradeByBuyer` make it unique among active ones,
  and after a cancellation the same buyer gets another
  (`Marketplace!CreateTrade`).
- *Reviews and lock order.* `docs/state-machines.md:118-119` says reviews take
  no part in the lock order. Inserting one (`trade_review_repository.go:35`)
  locks trade, then product, through its foreign keys, so it can close a circle
  with a command, which PostgreSQL breaks by aborting one of them
  (`LockOrder`: `OnlyReviewsDeadlock` excepts them).
- *Discarded objects.* When a commit took place but its answer was lost,
  `product_service.go:59` and `:219` erase the objects of committed images, which
  the comment at `:334` rules out (`ProductImages!CommitLost`; the property
  `MissingObjectsNeedLostCommit` says that nothing else can).
- *Restored passwords.* A profile edit that read its row before a password
  change writes the old hash back (`Account!UpdateProfile`, `ChangePassword`
  and its `Write`, then the first `Write`).
- *Events of product commands.* `docs/software-design.md` lists published,
  updated and changed products among the initial events; product commands
  write none (`Marketplace!Publish`, `Update`, `OffShelf`, `Relist`).
- *Size of uploads.* `router.go:124` limits every body to `MaxBodyBytes`
  (1 MiB, `config.go:69`), outside the 16 MiB limit of forms
  (`products.go:451-464`), so the smaller one decides (`Edge!Room`), against
  `config.go:26`, `router.go:23` and `openapi/paths/products.yaml:36`, `:145`.
  `UploadTimeout` (`config.go:34-35`) is loaded and never used.
- *500 without a fault.* What no check looks for is met by a table, a directory
  or a message that cannot hold it, and answered 500 (`Services!Unnoticed`): a
  NUL in an identifier of a path or in a text, an image of a product whose
  identifier is no directory name, a page number whose offset overflows
  `int32` (`marketplace/internal/application/commands.go:86`), text that is not UTF-8 (`Gateway!Unsent`).
  `openapi/components/schemas.yaml:102-103` calls for 400.
- *A validation error answered 500.* `createTrade` takes any `conversation_id` of
  1 to 64 characters (`handler/trades.go:50-52`); Messaging refuses one with a
  NUL as VALIDATION_ERROR (`messaging/internal/application/service.go:106`,
  `:297`), and `trade_service.go:549-554` turns every refusal other than
  RESOURCE_NOT_FOUND into INTERNAL_ERROR (`Gateway!InnerCode`), against the same
  lines of `schemas.yaml`. `OnlyFaultsFail` names both exceptions.
- *Undeclared statuses.* `respond.go:1-3` says errors follow the description;
  413 for JSON bodies, and 400 of `listUserProducts`, `listProductComments`,
  `acceptTrade`, `confirmTrade` and `removeFavorite`, are not declared there
  (`Contract!UndeclaredStatus`).
- *Register.* When the account is created and the look-up of scores fails, the
  client is told 500, and a second try 409 (`Gateway!RegisterUser`).
- *Retry-After.* While the table is full, a client that comes back when it was
  told to may be refused again (`Edge!RetryAfterIsKept` excepts it).
- *Not visible in a model.* The ledger does not compare the content of a
  request with the one it recorded for the key; the access log's actor is always empty and a panic passes it and the metrics
  by (`middleware.go:118`); and the detail of a sold product may take six calls
  of five seconds each in a row, which is the whole write timeout.

## 6. Not modelled, and the plan

Not modelled: the web client (any client that sends and repeats requests, which
the models have); generated code, API descriptions, deployment and scripts.
Partly modelled: gRPC servers (which RPC leads to which operation and how its
error travels; not the conversion of fields), tokens (their times, not their
signatures), logging, tracing and configuration (left out: no property is about
them). Reads of one service that take several statements
(`product_repository.go:61`) may show two moments; nothing is decided on them.
The `occurred_at` of events can contradict the order of commits
(`trade_service.go:405`); no consumer exists that relies on it, so the models
keep commit order where a property needs one, and `Messaging`, whose listing
does rely on the clock, keeps the clock.

Next, in this order:

1. Pages of products and trades while rows change, as `Messaging` has them for
   messages.
2. The effects of `Services` as an abstraction of `Marketplace`, `Account` and
   `Messaging`: a refinement mapping for each from its tables to `db`.
