------------------------------- MODULE Messaging -------------------------------
(***************************************************************************)
(* The Messaging service: conversations about a product, their messages,   *)
(* read marks and pages.  A worker is a request on one connection; it      *)
(* takes the advisory lock of its idempotency key, looks in the ledger,    *)
(* locks the conversation row (or inserts it), works on what it reads      *)
(* there with the clock as it is then, and commits everything at once.     *)
(* Requests interleave at each of these steps, may fail at each of them,   *)
(* and are sent again by clients that got no answer.                       *)
(*                                                                         *)
(* The wall clock of the server never goes back; it may stand still for    *)
(* any number of steps.  Contents and formats are left out.                *)
(***************************************************************************)
EXTENDS Integers, FiniteSets, SequencesExt, IdGenerator

CONSTANTS
  User, Product,
  SellerOf(_),       \* Marketplace's answer: the seller of a product
  Conv,              \* conversation identifiers the generator may hand out
  Key, NoKey,        \* Idempotency-Key values, and a request without one
  LockId(_),         \* advisory lock number of a command id
  Worker,            \* requests served at the same time
  Request,           \* what clients may ask for
  MaxSends,          \* bound on the requests clients send, repetitions included
  MaxTime,           \* bound on the clock
  Random,            \* values the random part of an identifier may start from
  Limit              \* messages on a page

VARIABLES
  conversations,   \* conversations: row of each identifier, or NoConversation
  messages,        \* messages: set of rows
  ledger,          \* idempotency_records: stored result of each command id
  events,          \* outbox_events: set of rows
  tx,              \* what each worker is doing
  now,             \* the server's clock
  last,            \* state of the identifier generator
  sent,            \* requests sent so far
  answers,         \* results the clients may have received
  walk             \* a client that reads a conversation page by page

(* What clients may send.                                                  *)
ASSUME RequestAssumption ==
  /\ NoKey \notin Key
  /\ Request \subseteq
       [op : {"conversation.get_or_create"}, actor : User, product : Product,
        key : Key \cup {NoKey}]
       \cup [op : {"message.send"}, actor : User, key : Key \cup {NoKey}]
       \cup [op : {"conversation.read"}, actor : User]

(* A client uses a key for one command: the ledger does not compare the    *)
(* content of a request with the one it recorded.                          *)
ASSUME KeyAssumption ==
  \A q, r \in Request :
    "key" \in DOMAIN q /\ q.op = "conversation.get_or_create" /\ q.key # NoKey /\ q.op = r.op
      /\ q.actor = r.actor /\ q.key = r.key => q.product = r.product

(* Random parts leave room for the increments of one millisecond, which    *)
(* are two for a request at most.                                          *)
ASSUME RandomAssumption ==
  MaxSends \in Nat /\ \A random \in Random : random \in Entropy /\ Room(random) >= 2 * MaxSends

(* normalizeMessageLimit: a page has room for a message.                   *)
ASSUME LimitAssumption == Limit \in Nat \ {0}

tables == <<conversations, messages, ledger, events>>
vars == <<tables, tx, now, last, sent, answers, walk>>

-----------------------------------------------------------------------------
(* Rows, results and events. *)

Null == "null"
Never == 0          \* the NULL of a time column
NoConversation == [product |-> Null]
NoCursor == [at |-> Never]
NoResult == [code |-> "NONE"]
Idle == [pc |-> "idle"]

Operation == {"conversation.get_or_create", "message.send"}
CommandId == [actor : User, op : Operation, key : Key]
Keyed(r) == "key" \in DOMAIN r /\ r.key # NoKey
IdOf(r) == [actor |-> r.actor, op |-> r.op, key |-> r.key]

Row(p, b) == [product |-> p, buyer |-> b, seller |-> SellerOf(p), last |-> Never]
Exists(c) == conversations[c] # NoConversation
IsParticipant(c, a) == a \in {conversations[c].buyer, conversations[c].seller}
OfContext(p, b) == {c \in Conv : Exists(c) /\ conversations[c].product = p
                                          /\ conversations[c].buyer = b}

(* cmd is not a column: it remembers which request made the row. *)
NewMessage(id, c, r) == [id |-> id, conv |-> c, sender |-> r.actor, at |-> now,
                         read |-> Never, cmd |-> r]

MessageSent(eid, c, id) ==
  [id |-> eid, type |-> "messaging.message.sent", at |-> now, conv |-> c, message |-> id]
ConversationRead(eid, c, a, id) ==
  [id |-> eid, type |-> "messaging.conversation.read", at |-> now, conv |-> c,
   message |-> id, actor |-> a]

(* Order of ORDER BY created_at, id. *)
Before(m, n) == m.at < n.at \/ (m.at = n.at /\ Less(m.id, n.id))
Newest(S) == {m \in S : \A n \in S : n = m \/ Before(n, m)}
In(c) == {m \in messages : m.conv = c}
FromOther(c, a) == {m \in In(c) : m.sender # a}

(* Mutant: reading does not stop at the anchor. *)
ThroughEverything(c, a, anchor) == {m \in FromOther(c, a) : m.read = Never}

(* MarkOpponentMessagesRead: the rows its UPDATE changes. *)
Through(c, a, anchor) ==
  {m \in FromOther(c, a) : m.read = Never /\ (m = anchor \/ Before(m, anchor))}

(* Rows with their read_at set. *)
Stamped(S, at) == {[m EXCEPT !.read = at] : m \in S}

(* WHERE of ListMessages. *)
Older(c, cursor) == {m \in In(c) : cursor = NoCursor \/ Before(m, cursor)}

(* A listing is given by the rank of each row in it.                       *)
Rank(S, m) == Cardinality({n \in S : n = m \/ Before(n, m)})
OldestFirst(S) == [i \in 1..Cardinality(S) |-> CHOOSE m \in S : Rank(S, m) = i]
NewestFirst(S) == Reverse(OldestFirst(S))

(* One page: limit + 1 rows are read to know whether there is another one. *)
Page(c, cursor) ==
  LET found == NewestFirst(Older(c, cursor))
      more == Len(found) > Limit
  IN  [items |-> IF more THEN SubSeq(found, 1, Limit) ELSE found,
       next |-> IF more THEN found[Limit] ELSE NoCursor]

(* Last message and number of unread messages, as ConversationView has them. *)
View(c, a) == [last |-> {m.id : m \in Newest(In(c))},
               unread |-> Cardinality({m \in FromOther(c, a) : m.read = Never})]

-----------------------------------------------------------------------------
(* Locks: a worker holds what its transaction has reached. *)

HoldsKey(w, l) ==
  tx[w].pc \notin {"idle", "key"} /\ Keyed(tx[w].req) /\ LockId(IdOf(tx[w].req)) = l

(* Row lock of a conversation that others can see. *)
HoldsRow(w, c) == tx[w].pc \in {"work", "commit"} /\ tx[w].conv = c

(* An inserted, uncommitted conversation blocks every insert of its kind.  *)
Inserting(w, p, b) ==
  tx[w].pc = "commit" /\ \E c \in DOMAIN tx[w].out.rows :
    ~Exists(c) /\ tx[w].out.rows[c].product = p /\ tx[w].out.rows[c].buyer = b

FreshConv == {c \in Conv : ~Exists(c) /\ \A w \in Worker :
                tx[w].pc = "commit" => c \notin DOMAIN tx[w].out.rows}

Outcome(rows, put, evts, result) ==
  [rows |-> rows, put |-> put, events |-> evts, result |-> result]
Nothing == [c \in {} |-> NoConversation]
Just(c, row) == [x \in {c} |-> row]

Enter(w, pc) ==
  /\ tx' = [tx EXCEPT ![w].pc = pc]
  /\ UNCHANGED <<tables, now, last, sent, answers, walk>>

(* The callback is done; what it wrote waits for the commit.               *)
Wrote(w, c, o) ==
  tx' = [tx EXCEPT ![w] = [pc |-> "commit", req |-> @.req, conv |-> c, out |-> o]]

RollBack(w) ==
  /\ tx' = [tx EXCEPT ![w] = Idle]
  /\ UNCHANGED <<tables, now, last, sent, answers, walk>>

-----------------------------------------------------------------------------
(* Steps of a request. *)

WorkStep(r) == IF r.op = "conversation.get_or_create" THEN "insert" ELSE "lock"
FirstStep(r) == IF Keyed(r) THEN "key" ELSE WorkStep(r)

(* A request arrives, for the first time or again.  A client knows the     *)
(* conversations and messages that are committed.                          *)
Begin(w, r) ==
  /\ tx[w].pc = "idle"
  /\ sent < MaxSends
  /\ sent' = sent + 1
  /\ \/ /\ r.op = "conversation.get_or_create"
        /\ tx' = [tx EXCEPT ![w] = [pc |-> FirstStep(r), req |-> r, conv |-> Null]]
     \/ /\ r.op = "message.send"
        /\ \E c \in Conv :
             /\ Exists(c)
             /\ tx' = [tx EXCEPT ![w] = [pc |-> FirstStep(r), req |-> r, conv |-> c]]
     \/ /\ r.op = "conversation.read"
        /\ \E m \in messages :
             tx' = [tx EXCEPT ![w] = [pc |-> "lock", req |-> r, conv |-> m.conv,
                                      anchor |-> m.id]]
  /\ UNCHANGED <<tables, now, last, answers, walk>>

(* pg_advisory_xact_lock waits for the transaction that holds it. *)
KeyFree(w) == \A v \in Worker \ {w} : ~HoldsKey(v, LockId(IdOf(tx[w].req)))

(* A stored result is answered before any state is looked at. *)
Replay(w) ==
  LET r == tx[w].req IN
  /\ tx[w].pc = "key"
  /\ KeyFree(w)
  /\ ledger[IdOf(r)] # NoResult
  /\ answers' = answers \cup {[req |-> r, result |-> ledger[IdOf(r)]]}
  /\ tx' = [tx EXCEPT ![w] = Idle]
  /\ UNCHANGED <<tables, now, last, sent, walk>>

(* Without one the callback runs, and the key stays locked. *)
Miss(w) ==
  /\ tx[w].pc = "key"
  /\ KeyFree(w)
  /\ ledger[IdOf(tx[w].req)] = NoResult
  /\ Enter(w, WorkStep(tx[w].req))

(* Marketplace answers who sells the product; nobody talks to himself.     *)
Askable(r) == SellerOf(r.product) \notin {Null, r.actor}

(* ON CONFLICT DO NOTHING found a committed row: it is selected FOR UPDATE, *)
(* which waits for whoever sends or reads there.                            *)
AnswerExisting(w) ==
  LET r == tx[w].req IN
  /\ tx[w].pc = "insert" /\ Askable(r)
  /\ \E c \in OfContext(r.product, r.actor) :
       /\ \A v \in Worker \ {w} : ~HoldsRow(v, c)
       /\ Wrote(w, c, Outcome(Nothing, {}, {},
            [code |-> "CONVERSATION_READY", conv |-> c, view |-> View(c, r.actor)]))
  /\ UNCHANGED <<tables, now, last, sent, answers, walk>>

(* Mutant: the unique index on the context is missing. *)
InsertConversationTwice(w) ==
  LET r == tx[w].req IN
  /\ tx[w].pc = "insert" /\ Askable(r)
  /\ FreshConv # {}
  /\ LET c == CHOOSE x \in FreshConv : TRUE IN
     Wrote(w, c, Outcome(Just(c, Row(r.product, r.actor)), {}, {},
       [code |-> "CONVERSATION_READY", conv |-> c, view |-> View(c, r.actor)]))
  /\ UNCHANGED <<tables, now, last, sent, answers, walk>>

(* The insert waits for an uncommitted row of the same context and takes   *)
(* place only if there is none in the end.                                 *)
InsertConversation(w) ==
  LET r == tx[w].req IN
  /\ tx[w].pc = "insert" /\ Askable(r)
  /\ OfContext(r.product, r.actor) = {}
  /\ \A v \in Worker \ {w} : ~Inserting(v, r.product, r.actor)
  /\ FreshConv # {}
  /\ LET c == CHOOSE x \in FreshConv : TRUE IN
     Wrote(w, c, Outcome(Just(c, Row(r.product, r.actor)), {}, {},
       [code |-> "CONVERSATION_READY", conv |-> c, view |-> View(c, r.actor)]))
  /\ UNCHANGED <<tables, now, last, sent, answers, walk>>

(* Mutant: the conversation is read without FOR UPDATE. *)
ReadConversation(w) ==
  /\ tx[w].pc = "lock"
  /\ IsParticipant(tx[w].conv, tx[w].req.actor)
  /\ Enter(w, "work")

LockConversation(w) ==
  /\ tx[w].pc = "lock"
  /\ IsParticipant(tx[w].conv, tx[w].req.actor)
  /\ \A v \in Worker \ {w} : ~HoldsRow(v, tx[w].conv)
  /\ Enter(w, "work")

(* TouchConversation: last_message_at never goes back. *)
Touched(row, at) ==
  IF row.last = Never \/ row.last < at THEN [row EXCEPT !.last = at] ELSE row

(* The clock is read and both identifiers are made under the row lock. *)
SendMessage(w) ==
  LET r == tx[w].req
      c == tx[w].conv
  IN
  /\ tx[w].pc = "work" /\ r.op = "message.send"
  /\ \E random \in Random :
       LET id == New(last, now, random)
           eid == New(id, now, random)
       IN  /\ last' = eid
           /\ Wrote(w, c, Outcome(
                Just(c, Touched(conversations[c], now)), {NewMessage(id, c, r)},
                {MessageSent(eid, c, id)},
                [code |-> "MESSAGE_SENT", message |-> id]))
  /\ UNCHANGED <<tables, now, sent, answers, walk>>

(* The anchor must be a message of the other side; an event is written     *)
(* only if a row changed.                                                  *)
MarkRead(w) ==
  LET r == tx[w].req
      c == tx[w].conv
  IN
  /\ tx[w].pc = "work" /\ r.op = "conversation.read"
  /\ \E anchor \in FromOther(c, r.actor), random \in Random :
       LET changed == Through(c, r.actor, anchor)
           eid == New(last, now, random)
       IN  /\ anchor.id = tx[w].anchor
           /\ last' = IF changed = {} THEN last ELSE eid
           /\ Wrote(w, c, Outcome(
                Nothing, Stamped(changed, now),
                IF changed = {} THEN {} ELSE {ConversationRead(eid, c, r.actor, anchor.id)},
                [code |-> "READ"]))
  /\ UNCHANGED <<tables, now, sent, answers, walk>>

(* Mutant: the ledger is not written with the tables. *)
ApplyUnrecorded(r, o) ==
  /\ conversations' = [c \in Conv |-> IF c \in DOMAIN o.rows THEN o.rows[c] ELSE conversations[c]]
  /\ messages' = {m \in messages : \A n \in o.put : n.id # m.id} \cup o.put
  /\ events' = events \cup o.events
  /\ UNCHANGED ledger

(* Everything the transaction wrote becomes visible at once. *)
Apply(r, o) ==
  /\ conversations' = [c \in Conv |-> IF c \in DOMAIN o.rows THEN o.rows[c] ELSE conversations[c]]
  /\ messages' = {m \in messages : \A n \in o.put : n.id # m.id} \cup o.put
  /\ events' = events \cup o.events
  /\ ledger' = IF Keyed(r) THEN [ledger EXCEPT ![IdOf(r)] = o.result] ELSE ledger

(* The client gets the result, or it is lost on its way and the client     *)
(* sends the request again.  The primary key of the ledger refuses a       *)
(* second result of a command.                                             *)
Commit(w) ==
  LET r == tx[w].req
      o == tx[w].out
  IN
  /\ tx[w].pc = "commit"
  /\ Keyed(r) => ledger[IdOf(r)] = NoResult
  /\ Apply(r, o)
  /\ answers' = answers \cup {[req |-> r, result |-> o.result]}
  /\ tx' = [tx EXCEPT ![w] = Idle]
  /\ UNCHANGED <<now, last, sent, walk>>

(* The other party's product, a stranger's conversation, a message of     *)
(* one's own as anchor, and the lost race for the ledger key.              *)
Refuse(w) ==
  LET r == tx[w].req IN
  /\ \/ tx[w].pc = "insert" /\ ~Askable(r)
     \/ tx[w].pc = "lock" /\ ~IsParticipant(tx[w].conv, r.actor)
     \/ /\ tx[w].pc = "work" /\ r.op = "conversation.read"
        /\ \A m \in FromOther(tx[w].conv, r.actor) : m.id # tx[w].anchor
     \/ tx[w].pc = "commit" /\ Keyed(r) /\ ledger[IdOf(r)] # NoResult
  /\ RollBack(w)

(* An error, a deadline or a lost connection, at any step. *)
Fail(w) ==
  /\ tx[w].pc # "idle"
  /\ RollBack(w)

(* The process dies and starts again, which takes a tick of the clock.     *)
Restart ==
  /\ now < MaxTime
  /\ now' = now + 1
  /\ tx' = [w \in Worker |-> Idle]
  /\ last' = NewGenerator
  /\ UNCHANGED <<tables, sent, answers, walk>>

Tick ==
  /\ now < MaxTime
  /\ now' = now + 1
  /\ UNCHANGED <<tables, tx, last, sent, answers, walk>>

-----------------------------------------------------------------------------
(* A client that reads whole conversations, newest page first.  seen is    *)
(* what it has so far, shown what there was when it read the first page.   *)

IdsOf(rows) == [i \in 1..Len(rows) |-> rows[i].id]

ReadPage(c, cursor, seen, shown) ==
  LET page == Page(c, cursor) IN
  walk' = IF page.next = NoCursor THEN Idle
          ELSE [pc |-> "paging", conv |-> c, cursor |-> page.next,
                seen |-> seen \o IdsOf(page.items), shown |-> shown]

FirstPage(c, a) ==
  /\ walk.pc = "idle"
  /\ Exists(c) /\ IsParticipant(c, a)
  /\ ReadPage(c, NoCursor, << >>, IdsOf(NewestFirst(In(c))))
  /\ UNCHANGED <<tables, tx, now, last, sent, answers>>

NextPage ==
  /\ walk.pc = "paging"
  /\ ReadPage(walk.conv, walk.cursor, walk.seen, walk.shown)
  /\ UNCHANGED <<tables, tx, now, last, sent, answers>>

-----------------------------------------------------------------------------
Init ==
  /\ conversations = [c \in Conv |-> NoConversation]
  /\ messages = {}
  /\ ledger = [k \in CommandId |-> NoResult]
  /\ events = {}
  /\ tx = [w \in Worker |-> Idle]
  /\ now = 1
  /\ last = NewGenerator
  /\ sent = 0
  /\ answers = {}
  /\ walk = Idle

Step(w) ==
  \/ Replay(w) \/ Miss(w) \/ AnswerExisting(w) \/ InsertConversation(w)
  \/ LockConversation(w) \/ SendMessage(w) \/ MarkRead(w)
  \/ Commit(w)
  \/ Refuse(w)

Next ==
  \/ \E w \in Worker :
       \/ \E r \in Request : Begin(w, r)
       \/ Step(w)
       \/ Fail(w)
  \/ Restart
  \/ Tick
  \/ \E c \in Conv, a \in User : FirstPage(c, a)
  \/ NextPage

Spec == Init /\ [][Next]_vars

-----------------------------------------------------------------------------
(* Properties. *)

SentEvents == {e \in events : e.type = "messaging.message.sent"}
ReadEvents(c, a) ==
  {e \in events : e.type = "messaging.conversation.read" /\ e.conv = c /\ e.actor = a}

(* The log of a context, and which of its messages are read. *)
Context == [product : Product, buyer : User]
Entry(m) == [id |-> m.id, sender |-> m.sender, at |-> m.at]
Entries(x) == {Entry(m) : m \in {n \in messages : n.conv \in OfContext(x.product, x.buyer)}}
LogOf(x) == OldestFirst(Entries(x))
ReadIn(x) ==
  {i \in 1..Len(LogOf(x)) : \E m \in messages : Entry(m) = LogOf(x)[i] /\ m.read # Never}

Log == INSTANCE ConversationLog WITH
  Message <- [id : Id, sender : User, at : Nat],
  log <- [x \in Context |-> LogOf(x)],
  read <- [x \in Context |-> ReadIn(x)]

(* Two transactions on one conversation, and readers in between: messages  *)
(* only ever appear at the end of the order in which pages show them, and  *)
(* a message that came after the anchor never becomes read with it.        *)
ImplementsLog == Log!Spec

(* A client that walks back page by page, while others send and read, sees *)
(* the conversation exactly as it was at the first page: what it has seen  *)
(* and what is still to come are together what there was, so nothing is    *)
(* skipped, repeated or slipped in.                                        *)
WalksAreSnapshots ==
  walk.pc = "paging" =>
    walk.seen \o IdsOf(NewestFirst(Older(walk.conv, walk.cursor))) = walk.shown

(* Racing and repeated requests of one buyer end up in one conversation,   *)
(* and every answer names it; every message a client was told of exists.   *)
AnswersAreTrue ==
  /\ \A p \in Product, b \in User : Cardinality(OfContext(p, b)) <= 1
  /\ \A x \in answers :
       CASE x.result.code = "CONVERSATION_READY" ->
              OfContext(x.req.product, x.req.actor) = {x.result.conv}
         [] x.result.code = "MESSAGE_SENT" ->
              \E m \in messages : m.id = x.result.message /\ m.sender = x.req.actor
         [] OTHER -> TRUE

(* However often a keyed message is sent, and whatever fails, there is one *)
(* row, and its command id is taken.                                       *)
SentOnce ==
  \A m \in messages : Keyed(m.cmd) =>
    /\ ledger[IdOf(m.cmd)] = [code |-> "MESSAGE_SENT", message |-> m.id]
    /\ \A n \in messages : Keyed(n.cmd) /\ IdOf(n.cmd) = IdOf(m.cmd) => n = m

(* A consumer that reads the outbox by (occurred_at, event_id) can rebuild *)
(* the tables: one event per message, in the order of the messages, and    *)
(* the last read event of a side names its newest read message.            *)
EventsTellMessages ==
  /\ {e.message : e \in SentEvents} = {m.id : m \in messages}
  /\ \A d, e \in SentEvents : d.conv = e.conv /\ d # e =>
       \A m, n \in messages : m.id = d.message /\ n.id = e.message =>
         (Before(m, n) <=> Before(d, e))
  /\ \A c \in Conv, a \in User : Exists(c) /\ IsParticipant(c, a) =>
       {m.id : m \in Newest({m \in FromOther(c, a) : m.read # Never})}
         = {e.message : e \in Newest(ReadEvents(c, a))}
=============================================================================
