---------------------------- MODULE MessagingProofs ----------------------------
(***************************************************************************)
(* TLAPS proofs about Messaging and the identifiers of IdGenerator, for    *)
(* any users, products, keys, lock numbers, workers and requests, a random *)
(* part of any width and pages of any length.                              *)
(***************************************************************************)
EXTENDS Messaging, FiniteSetTheorems, SequenceTheorems, WellFoundedInduction, TLAPS

-----------------------------------------------------------------------------
(* Identifiers. *)

(* A set of positions has a first and a last one. *)
LEMMA FirstAndLast ==
  ASSUME NEW k \in Nat, NEW S \in SUBSET (1..k), S # {}
  PROVE  /\ \E m \in S : \A n \in S : m <= n
         /\ \E m \in S : \A n \in S : n <= m
  <1> DEFINE R == StrictSubsetOrdering(1..k)
  <1>1. IsWellFoundedOn(R, SUBSET (1..k))
    <2>1. IsFiniteSet(1..k)
      BY FS_Interval
    <2>2. FiniteSubsetsOf(1..k) = SUBSET (1..k)
      BY <2>1, FS_FiniteSubsetsOfFinite, Zenon
    <2> QED
      BY <2>2, FS_StrictSubsetOrderingWellFounded, Zenon
  <1>2. \A a, b \in SUBSET (1..k) : a \subseteq b /\ a # b => <<a, b>> \in R
    BY DEF StrictSubsetOrdering
  <1> HIDE DEF R
  <1>3. \E m \in S : \A n \in S : m <= n
    <2> DEFINE T == {1..n : n \in S}
    <2>1. T \subseteq SUBSET (1..k) /\ T # {}
      <3>1. \A n \in S : 1..n \in SUBSET (1..k)
        OBVIOUS
      <3> QED
        BY <3>1
    <2>2. PICK x \in T : \A y \in T : <<y, x>> \notin R
      BY <1>1, <2>1, WFMin, Zenon
    <2>3. PICK m \in S : x = 1..m
      BY <2>2
    <2>4. \A n \in S : m <= n
      <3> SUFFICES ASSUME NEW n \in S, n < m PROVE FALSE
        OBVIOUS
      <3>1. 1..n \in T /\ 1..m \in SUBSET (1..k) /\ 1..n \in SUBSET (1..k)
        OBVIOUS
      <3>2. 1..n \subseteq 1..m /\ m \in 1..m /\ m \notin 1..n
        OBVIOUS
      <3> QED
        BY <1>2, <2>2, <2>3, <3>1, <3>2, Zenon
    <2> QED
      BY <2>4
  <1>4. \E m \in S : \A n \in S : n <= m
    <2> DEFINE T == {n..k : n \in S}
    <2>1. T \subseteq SUBSET (1..k) /\ T # {}
      <3>1. \A n \in S : n..k \in SUBSET (1..k)
        OBVIOUS
      <3> QED
        BY <3>1
    <2>2. PICK x \in T : \A y \in T : <<y, x>> \notin R
      BY <1>1, <2>1, WFMin, Zenon
    <2>3. PICK m \in S : x = m..k
      BY <2>2
    <2>4. \A n \in S : n <= m
      <3> SUFFICES ASSUME NEW n \in S, m < n PROVE FALSE
        OBVIOUS
      <3>1. n..k \in T /\ m..k \in SUBSET (1..k) /\ n..k \in SUBSET (1..k)
        OBVIOUS
      <3>2. n..k \subseteq m..k /\ m \in m..k /\ m \notin n..k
        OBVIOUS
      <3> QED
        BY <1>2, <2>2, <2>3, <3>1, <3>2, Zenon
    <2> QED
      BY <2>4
  <1> QED
    BY <1>3, <1>4

LEMMA SameBytes ==
  ASSUME NEW d \in Entropy, NEW e \in Entropy, \A i \in 1..Bytes : d[i] = e[i]
  PROVE  d = e
  <1>1. PICK B, V : B = 1..Bytes /\ V = 0..MaxByte
    OBVIOUS
  <1>2. d \in [B -> V] /\ e \in [B -> V] /\ \A i \in B : d[i] = e[i]
    BY <1>1 DEF Entropy
  <1> QED
    BY <1>2, SMT

LEMMA EntropyFinite == IsFiniteSet(Entropy)
  <1> DEFINE Cells == (1..Bytes) \X (0..MaxByte)
             f == [e \in Entropy |-> {c \in Cells : c[2] = e[c[1]]}]
  <1>1. IsFiniteSet(SUBSET Cells)
    <2>1. IsFiniteSet(1..Bytes) /\ IsFiniteSet(0..MaxByte)
      BY EntropyAssumption, FS_Interval
    <2>2. IsFiniteSet(Cells)
      BY <2>1, FS_Product, Zenon
    <2> QED
      BY <2>2, FS_SUBSET, Zenon
  <1>2. f \in [Entropy -> SUBSET Cells]
    OBVIOUS
  <1>3. ASSUME NEW d \in Entropy, NEW e \in Entropy, f[d] = f[e]
        PROVE  d = e
    <2>1. \A i \in 1..Bytes : d[i] = e[i]
      <3> TAKE i \in 1..Bytes
      <3>1. <<i, d[i]>> \in Cells
        BY DEF Entropy
      <3>2. <<i, d[i]>> \in f[d]
        BY <3>1
      <3>3. <<i, d[i]>> \in f[e]
        BY <1>3, <3>2, Zenon
      <3> QED
        BY <3>3
    <2> QED
      BY <2>1, SameBytes
  <1>4. f \in Injection(Entropy, SUBSET Cells)
    BY <1>2, <1>3 DEF Injection, IsInjective
  <1> QED
    BY <1>1, <1>4, FS_Injection

LEMMA LowerIsOrder ==
  ASSUME NEW d \in Entropy, NEW e \in Entropy, NEW f \in Entropy
  PROVE  /\ ~Lower(d, d)
         /\ Lower(d, e) /\ Lower(e, f) => Lower(d, f)
         /\ d # e => Lower(d, e) \/ Lower(e, d)
  <1>1. Bytes \in Nat /\ \A i \in 1..Bytes : d[i] \in Int /\ e[i] \in Int /\ f[i] \in Int
    BY EntropyAssumption DEF Entropy
  <1>2. ~Lower(d, d)
    BY <1>1 DEF Lower
  <1>3. ASSUME Lower(d, e), Lower(e, f) PROVE Lower(d, f)
    <2>1. PICK i \in 1..Bytes : d[i] < e[i] /\ \A j \in 1..(i - 1) : d[j] = e[j]
      BY <1>3 DEF Lower
    <2>2. PICK k \in 1..Bytes : e[k] < f[k] /\ \A j \in 1..(k - 1) : e[j] = f[j]
      BY <1>3 DEF Lower
    <2>3. CASE i < k
      <3>1. d[i] < f[i] /\ \A j \in 1..(i - 1) : d[j] = f[j]
        BY <1>1, <2>1, <2>2, <2>3
      <3> QED
        BY <3>1 DEF Lower
    <2>4. CASE i = k
      <3>1. d[i] < f[i] /\ \A j \in 1..(i - 1) : d[j] = f[j]
        BY <1>1, <2>1, <2>2, <2>4
      <3> QED
        BY <3>1 DEF Lower
    <2>5. CASE k < i
      <3>1. d[k] < f[k] /\ \A j \in 1..(k - 1) : d[j] = f[j]
        BY <1>1, <2>1, <2>2, <2>5
      <3> QED
        BY <3>1 DEF Lower
    <2> QED
      BY <2>3, <2>4, <2>5
  <1>4. ASSUME d # e PROVE Lower(d, e) \/ Lower(e, d)
    <2> DEFINE S == {i \in 1..Bytes : d[i] # e[i]}
    <2>1. S # {}
      BY <1>4, SameBytes
    <2>2. PICK m \in S : \A n \in S : m <= n
      BY <1>1, <2>1, FirstAndLast
    <2>3. \A j \in 1..(m - 1) : d[j] = e[j] /\ e[j] = d[j]
      BY <1>1, <2>2
    <2>4. d[m] < e[m] \/ e[m] < d[m]
      BY <1>1, <2>2
    <2> QED
      BY <2>2, <2>3, <2>4 DEF Lower
  <1> QED
    BY <1>2, <1>3, <1>4

(* The carry is right: unless every byte is at its end, the incremented     *)
(* random part is the next one in the order of the encoded strings.        *)
THEOREM IncrementIsNext ==
  ASSUME NEW e \in Entropy
  PROVE  /\ Increment(e) \in Entropy
         /\ \A f \in Entropy :
              Lower(e, f) => Lower(e, Increment(e)) /\ (f = Increment(e) \/ Lower(Increment(e), f))
  <1>1. Bytes \in Nat /\ MaxByte \in Nat /\ \A i \in 1..Bytes : e[i] \in 0..MaxByte
    BY EntropyAssumption DEF Entropy
  <1>2. ASSUME NEW i \in 1..Bytes
        PROVE  /\ e[i] = MaxByte => (e[i] + 1) % (MaxByte + 1) = 0
               /\ e[i] < MaxByte => (e[i] + 1) % (MaxByte + 1) = e[i] + 1
    <2>1. CASE e[i] = MaxByte
      BY <1>1, <2>1
    <2>2. CASE e[i] < MaxByte
      BY <1>1, <2>2
    <2> QED
      BY <1>1, <2>1, <2>2
  <1>3. PICK g : g = Increment(e)
    OBVIOUS
  <1>4. g \in Entropy
    BY <1>1, <1>2, <1>3 DEF Increment, Entropy
  <1>5. ASSUME NEW f \in Entropy, Lower(e, f)
        PROVE  Lower(e, g) /\ (f = g \/ Lower(g, f))
    <2>1. \A i \in 1..Bytes : f[i] \in 0..MaxByte
      BY DEF Entropy
    <2>2. PICK i \in 1..Bytes : e[i] < f[i] /\ \A j \in 1..(i - 1) : e[j] = f[j]
      BY <1>5 DEF Lower
    <2> DEFINE S == {n \in 1..Bytes : e[n] # MaxByte}
    <2>3. i \in S
      BY <1>1, <2>1, <2>2
    <2>4. PICK p \in S : \A n \in S : n <= p
      BY <1>1, <2>3, FirstAndLast
    <2>5. Reached(e, p) /\ \A j \in (p + 1)..Bytes : e[j] = MaxByte /\ Reached(e, j)
      BY <1>1, <2>4 DEF Reached
    <2>6. \A j \in 1..(p - 1) : ~Reached(e, j)
      BY <1>1, <2>4 DEF Reached
    <2>7. /\ \A j \in 1..(p - 1) : g[j] = e[j]
          /\ g[p] = e[p] + 1
          /\ \A j \in (p + 1)..Bytes : g[j] = 0
      BY <1>1, <1>2, <1>3, <2>4, <2>5, <2>6 DEF Increment
    <2>8. Lower(e, g)
      BY <1>1, <2>4, <2>7 DEF Lower
    <2>9. CASE i < p
      <3>1. g[i] < f[i] /\ \A j \in 1..(i - 1) : g[j] = f[j]
        BY <1>1, <2>2, <2>4, <2>7, <2>9
      <3> QED
        BY <2>8, <3>1 DEF Lower
    <2>10. CASE i = p
      <3>1. ASSUME f # g PROVE Lower(g, f)
        <4> DEFINE D == {n \in 1..Bytes : f[n] # g[n]}
        <4>1. D # {}
          BY <1>3, <1>4, <3>1, SameBytes
        <4>2. PICK m \in D : \A n \in D : m <= n
          BY <1>1, <4>1, FirstAndLast
        <4>3. \A j \in 1..(m - 1) : g[j] = f[j]
          BY <1>1, <4>2
        <4>4. m >= p
          BY <1>1, <2>2, <2>7, <2>10, <4>2
        <4>5. g[m] < f[m]
          <5>1. CASE m = p
            BY <1>1, <2>1, <2>2, <2>7, <2>10, <4>2, <5>1
          <5>2. CASE m > p
            BY <1>1, <2>1, <2>7, <4>2, <5>2
          <5> QED
            BY <4>4, <5>1, <5>2
        <4> QED
          BY <4>2, <4>3, <4>5 DEF Lower
      <3> QED
        BY <2>8, <3>1
    <2> QED
      BY <2>3, <2>4, <2>8, <2>9, <2>10
  <1> QED
    BY <1>3, <1>4, <1>5

(* Every increment uses up one step of the room that is left. *)
LEMMA IncrementUsesRoom ==
  ASSUME NEW e \in Entropy
  PROVE  /\ Room(e) \in Nat
         /\ Increment(e) \in Entropy
         /\ Room(e) > 0 => Lower(e, Increment(e)) /\ Room(Increment(e)) = Room(e) - 1
  <1> DEFINE Above(x) == {f \in Entropy : Lower(x, f)}
  <1>1. PICK g : g = Increment(e)
    OBVIOUS
  <1>2. g \in Entropy
    BY <1>1, IncrementIsNext
  <1>3. IsFiniteSet(Above(e)) /\ IsFiniteSet(Above(g))
    BY EntropyFinite, FS_Subset
  <1>4. Cardinality(Above(e)) \in Nat /\ Cardinality(Above(g)) \in Nat
    BY <1>3, FS_CardinalityType
  <1>5. Room(e) = Cardinality(Above(e)) /\ Room(g) = Cardinality(Above(g))
    BY DEF Room
  <1>6. ASSUME Room(e) > 0
        PROVE  Lower(e, g) /\ Room(g) = Room(e) - 1
    <2>1. Above(e) # {}
      BY <1>5, <1>6, FS_EmptySet
    <2>2. Lower(e, g)
      BY <1>1, <2>1, IncrementIsNext
    <2>3. Above(e) = Above(g) \cup {g}
      <3>1. \A f \in Above(e) : f = g \/ Lower(g, f)
        BY <1>1, IncrementIsNext
      <3>2. \A f \in Above(g) : Lower(e, f)
        BY <1>2, <2>2, LowerIsOrder
      <3> QED
        BY <1>2, <2>2, <3>1, <3>2
    <2>4. g \notin Above(g)
      BY <1>2, LowerIsOrder
    <2>5. Cardinality(Above(e)) = Cardinality(Above(g)) + 1
      BY <1>3, <2>3, <2>4, FS_AddElement
    <2> QED
      BY <1>4, <1>5, <2>2, <2>5
  <1> QED
    BY <1>1, <1>2, <1>4, <1>5, <1>6

LEMMA NewIsId ==
  ASSUME NEW old \in Id, NEW ms \in Nat, NEW random \in Entropy
  PROVE  New(old, ms, random) \in Id
  <1>1. old.ms \in Nat /\ old.entropy \in Entropy
    BY DEF Id
  <1> QED
    BY <1>1, IncrementIsNext DEF New, Id

(* An identifier is above the one made before it even if the clock stands  *)
(* still or goes back, unless the random part is used up within one        *)
(* millisecond.                                                            *)
THEOREM NewIncreases ==
  ASSUME NEW old \in Id, NEW ms \in Nat, NEW random \in Entropy,
         ms > old.ms \/ Room(old.entropy) > 0
  PROVE  Less(old, New(old, ms, random))
  <1>1. old.ms \in Nat /\ old.entropy \in Entropy
    BY DEF Id
  <1>2. CASE ms > old.ms
    BY <1>1, <1>2 DEF New, Less
  <1>3. CASE ~(ms > old.ms)
    <2>1. Lower(old.entropy, Increment(old.entropy))
      BY <1>1, <1>3, IncrementUsesRoom
    <2> QED
      BY <1>1, <1>3, <2>1 DEF New, Less
  <1> QED
    BY <1>2, <1>3

(* The order of identifiers is a strict total order, so a cursor on them   *)
(* cuts a listing in two without a gap or an overlap.                      *)
THEOREM LessIsStrictTotalOrder ==
  ASSUME NEW i \in Id, NEW j \in Id, NEW k \in Id
  PROVE  /\ ~Less(i, i)
         /\ Less(i, j) /\ Less(j, k) => Less(i, k)
         /\ i # j => Less(i, j) \/ Less(j, i)
  <1>1. /\ i.ms \in Nat /\ j.ms \in Nat /\ k.ms \in Nat
        /\ i.entropy \in Entropy /\ j.entropy \in Entropy /\ k.entropy \in Entropy
    BY DEF Id
  <1>2. i # j => i.ms # j.ms \/ i.entropy # j.entropy
    BY DEF Id
  <1>3. /\ ~Lower(i.entropy, i.entropy)
        /\ Lower(i.entropy, j.entropy) /\ Lower(j.entropy, k.entropy)
             => Lower(i.entropy, k.entropy)
        /\ i.entropy # j.entropy
             => Lower(i.entropy, j.entropy) \/ Lower(j.entropy, i.entropy)
    BY <1>1, LowerIsOrder
  <1> QED
    BY <1>1, <1>2, <1>3 DEF Less

-----------------------------------------------------------------------------
(* The inductive invariant: requests, locks and conversations. *)

Opens(r) == r.op = "conversation.get_or_create"
Sends(r) == r.op = "message.send"
Reads(r) == r.op = "conversation.read"

Openings == {r \in Request : Opens(r)}
Sendings == {r \in Request : Sends(r)}
Readings == {r \in Request : Reads(r)}

Committing(w) == tx[w].pc = "commit"

(* What a request knows at each of its steps. *)
Knows(x) ==
  /\ \/ x = Idle
     \/ x \in [pc : {"key", "insert"}, req : Openings, conv : {Null}]
     \/ x \in [pc : {"key", "lock", "work"}, req : Sendings, conv : Conv]
     \/ x \in [pc : {"lock", "work"}, req : Readings, conv : Conv, anchor : Id]
     \/ x.pc = "commit" /\ x.req \in Request /\ x.conv \in Conv
  /\ x.pc = "key" => Keyed(x.req)

TxOK ==
  /\ tx = [w \in Worker |-> tx[w]]
  /\ \A w \in Worker : Knows(tx[w])

ConversationRow == [product : Product, buyer : User, seller : {SellerOf(p) : p \in Product},
                    last : Nat]

RowsOK ==
  /\ conversations \in [Conv -> {NoConversation} \cup ConversationRow]
  /\ \A c \in Conv : Exists(c) => conversations[c].seller # conversations[c].buyer
  /\ ledger = [k \in CommandId |-> ledger[k]]
  /\ \A p \in Product, b \in User : \A c, d \in OfContext(p, b) : c = d

(* Whoever sends to or reads a conversation has found it. *)
Found ==
  \A w \in Worker :
    /\ tx[w].pc \in {"key", "lock", "work"} /\ ~Opens(tx[w].req) => Exists(tx[w].conv)
    /\ tx[w].pc = "work" => IsParticipant(tx[w].conv, tx[w].req.actor)

LocksOK ==
  \A v, w \in Worker : v # w =>
    /\ \A l : ~(HoldsKey(v, l) /\ HoldsKey(w, l))
    /\ \A c : ~(HoldsRow(v, c) /\ HoldsRow(w, c))
    /\ \A p, b : ~(Inserting(v, p, b) /\ Inserting(w, p, b))

(* The key of a command that runs has no result yet. *)
KeysFresh ==
  \A w \in Worker : tx[w].pc \notin {"idle", "key"} /\ Keyed(tx[w].req) =>
    ledger[IdOf(tx[w].req)] = NoResult

-----------------------------------------------------------------------------
(* The inductive invariant: the generator. *)

(* Made before whatever is made next. *)
Made(i) ==
  /\ i \in Id /\ i.ms <= now
  /\ i.ms < now \/ i = last \/ Less(i, last)

Begun == {w \in Worker : tx[w].pc \notin {"idle", "commit"}}

(* Requests that have begun may make two identifiers each. *)
Left == MaxSends - sent + Cardinality(Begun)

IdsOK ==
  /\ now \in Nat /\ now > 0 /\ last \in Id /\ last.ms <= now
  /\ sent \in Nat /\ sent <= MaxSends
  /\ IsFiniteSet(Begun) /\ Cardinality(Begun) <= sent
  /\ last.ms = now => Room(last.entropy) >= 2 * Left

-----------------------------------------------------------------------------
(* The inductive invariant: what waits for a commit. *)

SameContext(row, old) ==
  /\ row \in ConversationRow
  /\ row.product = old.product /\ row.buyer = old.buyer /\ row.seller = old.seller

WroteOpening(r, c, o) ==
  /\ Opens(r) /\ Askable(r)
  /\ o.put = {} /\ o.events = {}
  /\ o.result.code = "CONVERSATION_READY" /\ o.result.conv = c
  /\ \/ o.rows = Nothing /\ c \in OfContext(r.product, r.actor)
     \/ o.rows = Just(c, Row(r.product, r.actor)) /\ ~Exists(c)
        /\ OfContext(r.product, r.actor) = {}

SentPair(e, m) ==
  /\ e.type = "messaging.message.sent" /\ e.message = m.id /\ e.conv = m.conv
  /\ Made(e.id) /\ Made(m.id) /\ Less(m.id, e.id)
  /\ e.at = m.at /\ e.id.ms = e.at /\ m.id.ms = m.at

WroteMessage(r, c, o) ==
  /\ Sends(r) /\ Exists(c) /\ IsParticipant(c, r.actor)
  /\ o.rows = Just(c, o.rows[c]) /\ SameContext(o.rows[c], conversations[c])
  /\ \E m \in o.put, e \in o.events :
       /\ o.put = {m} /\ o.events = {e}
       /\ m = [id |-> m.id, conv |-> c, sender |-> r.actor, at |-> m.at, read |-> Never,
               cmd |-> r]
       /\ SentPair(e, m)
       /\ o.result = [code |-> "MESSAGE_SENT", message |-> m.id]
       /\ \A n \in In(c) : Less(n.id, m.id)

WroteReading(r, c, o) ==
  /\ Reads(r) /\ Exists(c) /\ IsParticipant(c, r.actor)
  /\ o.rows = Nothing /\ o.result = [code |-> "READ"]
  /\ \E anchor \in FromOther(c, r.actor), at \in 1..now :
       LET changed == Through(c, r.actor, anchor) IN
       /\ o.put = Stamped(changed, at)
       /\ changed = {} => o.events = {}
       /\ changed # {} =>
            \E e \in o.events :
              /\ o.events = {e}
              /\ e.type = "messaging.conversation.read" /\ e.conv = c /\ e.actor = r.actor
              /\ e.message = anchor.id
              /\ Made(e.id) /\ e.at = e.id.ms
              /\ \A d \in ReadEvents(c, r.actor) : Less(d.id, e.id)

Waiting(r, c, o) == WroteOpening(r, c, o) \/ WroteMessage(r, c, o) \/ WroteReading(r, c, o)

Writing ==
  \A w \in Worker : \A r, c, o :
    Committing(w) /\ r = tx[w].req /\ c = tx[w].conv /\ o = tx[w].out => Waiting(r, c, o)

-----------------------------------------------------------------------------
(* The inductive invariant: messages and their events. *)

MessagesOK ==
  /\ \A m \in messages :
       /\ m \in [id : Id, conv : Conv, sender : User, at : Nat, read : Nat, cmd : Sendings]
       /\ m.cmd.actor = m.sender
       /\ Made(m.id) /\ m.at = m.id.ms
       /\ Exists(m.conv) /\ IsParticipant(m.conv, m.sender)
  /\ \A m, n \in messages : m.id = n.id => m = n

EventsOK ==
  /\ \A e \in events : Made(e.id) /\ e.at = e.id.ms /\ e.conv \in Conv /\ Exists(e.conv)
  /\ \A e \in SentEvents : Made(e.message) /\ e.message.ms = e.at /\ Less(e.message, e.id)
  /\ {e.message : e \in SentEvents} = {m.id : m \in messages}

(* The identifiers of a message and its event are neighbours. *)
Apart(d, e) == Less(d.id, e.message) \/ Less(e.id, d.message)

SentBy(w) == IF Committing(w) /\ Sends(tx[w].req) THEN tx[w].out.events ELSE {}

PairsApart ==
  /\ \A d, e \in SentEvents : d = e \/ Apart(d, e)
  /\ \A w \in Worker : \A d \in SentBy(w), e \in SentEvents : Apart(d, e)
  /\ \A v, w \in Worker : v # w => \A d \in SentBy(v), e \in SentBy(w) : Apart(d, e)

(* What one side has read of the other is the older part. *)
ReadIsPrefix ==
  \A c \in Conv, a \in User : Exists(c) /\ IsParticipant(c, a) =>
    \A m, n \in FromOther(c, a) : m.read # Never /\ Before(n, m) => n.read # Never

ReadOf(c, a) == {m \in FromOther(c, a) : m.read # Never}
Tells(E, S) == {m.id : m \in Newest(S)} = {e.message : e \in Newest(E)}

ReadIsTold ==
  \A c \in Conv, a \in User : Exists(c) /\ IsParticipant(c, a) =>
    Tells(ReadEvents(c, a), ReadOf(c, a))

-----------------------------------------------------------------------------
(* The inductive invariant: the ledger and the answers. *)

ReadyFor(p, b, result) ==
  result.code = "CONVERSATION_READY" /\ OfContext(p, b) = {result.conv}
SentFor(a, result) ==
  result.code = "MESSAGE_SENT" /\ \E m \in messages : m.id = result.message /\ m.sender = a

LedgerTrue ==
  \A r \in Request : \A result :
    Keyed(r) /\ result = ledger[IdOf(r)] /\ result # NoResult =>
      /\ Opens(r) => ReadyFor(r.product, r.actor, result)
      /\ Sends(r) => SentFor(r.actor, result)

AnswersOK ==
  \A x \in answers :
    \/ ReadyFor(x.req.product, x.req.actor, x.result)
    \/ SentFor(x.req.actor, x.result)
    \/ x.result = [code |-> "READ"]

ControlInv == TxOK /\ RowsOK /\ Found /\ LocksOK /\ KeysFresh /\ IdsOK
TableInv == MessagesOK /\ EventsOK /\ PairsApart /\ ReadIsPrefix /\ ReadIsTold
ResultInv == LedgerTrue /\ AnswersOK /\ SentOnce
IInv == ControlInv /\ Writing /\ TableInv /\ ResultInv

-----------------------------------------------------------------------------
(* Requests, results and rows. *)

LEMMA Requests ==
  ASSUME NEW r \in Request
  PROVE  /\ r.actor \in User
         /\ Opens(r) \/ Sends(r) \/ Reads(r)
         /\ ~(Opens(r) /\ Sends(r)) /\ ~(Opens(r) /\ Reads(r)) /\ ~(Sends(r) /\ Reads(r))
         /\ Opens(r) => r.product \in Product
         /\ Keyed(r) => IdOf(r) \in CommandId /\ ~Reads(r) /\ r.key # NoKey
  <1> DEFINE A == [op : {"conversation.get_or_create"}, actor : User, product : Product,
                   key : Key \cup {NoKey}]
             B == [op : {"message.send"}, actor : User, key : Key \cup {NoKey}]
             C == [op : {"conversation.read"}, actor : User]
  <1>1. r \in A \/ r \in B \/ r \in C
    BY RequestAssumption
  <1>2. CASE r \in A
    BY <1>2 DEF Opens, Sends, Reads, Keyed, IdOf, CommandId, Operation
  <1>3. CASE r \in B
    BY <1>3 DEF Opens, Sends, Reads, Keyed, IdOf, CommandId, Operation
  <1>4. CASE r \in C
    <2>1. "key" \notin DOMAIN r
      BY <1>4
    <2> QED
      BY <1>4, <2>1 DEF Opens, Sends, Reads, Keyed
  <1> QED
    BY <1>1, <1>2, <1>3, <1>4

(* A command id belongs to one command: requests with the same one are     *)
(* copies of each other in what counts.                                    *)
LEMMA SameCommand ==
  ASSUME NEW q \in Request, NEW r \in Request, Keyed(q), Keyed(r), IdOf(q) = IdOf(r)
  PROVE  /\ q.actor = r.actor
         /\ Opens(q) <=> Opens(r)
         /\ Sends(q) <=> Sends(r)
         /\ Opens(r) => q.product = r.product
  <1>1. q.actor = r.actor /\ q.op = r.op /\ q.key = r.key
    BY DEF IdOf
  <1> QED
    BY <1>1, KeyAssumption DEF Opens, Sends, Keyed

LEMMA RowShapes ==
  /\ \A row \in ConversationRow : row # NoConversation
  /\ \A p \in Product, b \in User : Row(p, b) \in ConversationRow
  /\ \A result : result.code # "NONE" => result # NoResult
  BY DEF ConversationRow, NoConversation, Row, NoResult, Never

(* The states of a request, told apart by their step. *)
LEMMA Steps ==
  ASSUME NEW x, Knows(x)
  PROVE  /\ x.pc \in {"idle", "key", "insert", "lock", "work", "commit"}
         /\ x.pc = "idle" => x = Idle
         /\ x.pc # "idle" => x.req \in Request
         /\ x.pc = "commit" => x.conv \in Conv
         /\ x.pc = "key" => Keyed(x.req)
         /\ x.pc \in {"key", "insert"} /\ Opens(x.req) =>
              x \in [pc : {"key", "insert"}, req : Openings, conv : {Null}]
         /\ x.pc = "insert" => Opens(x.req)
         /\ x.pc \in {"key", "lock", "work"} /\ ~Opens(x.req) =>
              \/ x \in [pc : {"key", "lock", "work"}, req : Sendings, conv : Conv]
              \/ x \in [pc : {"lock", "work"}, req : Readings, conv : Conv, anchor : Id]
         /\ x.pc \in {"lock", "work"} => ~Opens(x.req)
  <1>1. CASE x = Idle
    BY <1>1 DEF Idle
  <1>2. CASE x \in [pc : {"key", "insert"}, req : Openings, conv : {Null}]
    BY <1>2 DEF Knows, Openings
  <1>3. CASE x \in [pc : {"key", "lock", "work"}, req : Sendings, conv : Conv]
    BY <1>3, Requests DEF Knows, Sendings
  <1>4. CASE x \in [pc : {"lock", "work"}, req : Readings, conv : Conv, anchor : Id]
    BY <1>4, Requests DEF Knows, Readings
  <1>5. CASE x.pc = "commit" /\ x.req \in Request /\ x.conv \in Conv
    BY <1>5
  <1> QED
    BY <1>1, <1>2, <1>3, <1>4, <1>5 DEF Knows

LEMMA Orders ==
  ASSUME NEW m, NEW n, m.id \in Id, n.id \in Id, m.at = m.id.ms, n.at = n.id.ms
  PROVE  Before(m, n) <=> Less(m.id, n.id)
  BY DEF Before, Less, Id

(* The next identifier is above all that were made. *)
LEMMA NextIsAbove ==
  ASSUME IdsOK, NEW random \in Random, Left > 0
  PROVE  /\ New(last, now, random) \in Id
         /\ New(last, now, random).ms = now
         /\ \A i : Made(i) => Less(i, New(last, now, random))
         /\ Room(New(last, now, random).entropy) >= 2 * Left - 1
  <1> DEFINE id == New(last, now, random)
  <1>1. random \in Entropy /\ Room(random) >= 2 * MaxSends /\ MaxSends \in Nat
    BY RandomAssumption
  <1>2. Left \in Int /\ Left <= MaxSends
    <2>1. Cardinality(Begun) \in Nat
      BY FS_CardinalityType DEF IdsOK
    <2> QED
      BY <1>1, <2>1 DEF IdsOK, Left
  <1>3. last \in Id /\ now \in Nat /\ last.ms \in Nat /\ last.entropy \in Entropy
    BY DEF IdsOK, Id
  <1>4. id \in Id
    BY <1>1, <1>3, NewIsId
  <1>5. /\ Room(random) \in Nat /\ Room(last.entropy) \in Nat
        /\ \A i : Made(i) => i \in Id /\ i.ms \in Nat
    BY <1>1, <1>3, IncrementUsesRoom DEF Made, Id
  <1>6. CASE last.ms = now
    <2>1. Room(last.entropy) >= 2 * Left /\ Room(last.entropy) > 0
      BY <1>2, <1>5, <1>6 DEF IdsOK
    <2>2. id.ms = now /\ id.entropy = Increment(last.entropy)
      BY <1>3, <1>6 DEF New
    <2>3. Room(id.entropy) = Room(last.entropy) - 1
      BY <1>3, <2>1, <2>2, IncrementUsesRoom
    <2>4. Less(last, id)
      BY <1>1, <1>3, <2>1, NewIncreases
    <2>5. \A i : Made(i) => Less(i, id)
      BY <1>3, <1>4, <1>5, <1>6, <2>2, <2>4, LessIsStrictTotalOrder DEF Made, Less
    <2> QED
      BY <1>2, <1>4, <1>5, <2>1, <2>2, <2>3, <2>5
  <1>7. CASE last.ms # now
    <2>1. last.ms < now
      BY <1>3, <1>7 DEF IdsOK
    <2>2. id.ms = now /\ id.entropy = random
      BY <2>1 DEF New
    <2>3. \A i : Made(i) => Less(i, id)
      BY <1>3, <1>5, <2>1, <2>2 DEF Made, Less
    <2> QED
      BY <1>1, <1>2, <1>4, <1>5, <2>2, <2>3
  <1> QED
    BY <1>6, <1>7

LEMMA MadeStays ==
  ASSUME IdsOK, now' \in Nat, last' \in Id,
         \/ now' > now
         \/ now' = now /\ (last' = last \/ Less(last, last'))
  PROVE  \A i : Made(i) => Made(i)'
  <1>1. last \in Id /\ now \in Nat
    BY DEF IdsOK
  <1> SUFFICES ASSUME NEW i, Made(i) PROVE Made(i)'
    OBVIOUS
  <1>2. i \in Id
    BY DEF Made
  <1>3. i.ms \in Nat /\ last.ms \in Nat /\ last'.ms \in Nat
    BY <1>1, <1>2 DEF Id
  <1>4. Less(i, last) /\ Less(last, last') => Less(i, last')
    BY <1>1, <1>2, LessIsStrictTotalOrder
  <1> QED
    BY <1>1, <1>2, <1>3, <1>4 DEF Made, Less

(* What waits for its commit stays right while nobody touches what it is   *)
(* about.                                                                  *)
LEMMA WaitingStays ==
  ASSUME NEW r, NEW c, NEW o,
         conversations'[c] = conversations[c],
         Opens(r) => OfContext(r.product, r.actor)' = OfContext(r.product, r.actor),
         In(c)' = In(c), ReadEvents(c, r.actor)' = ReadEvents(c, r.actor),
         now \in Nat, now' \in Nat, now <= now', \A i : Made(i) => Made(i)'
  PROVE  Waiting(r, c, o) => Waiting(r, c, o)'
  <1>1. Exists(c)' <=> Exists(c)
    BY DEF Exists
  <1>2. IsParticipant(c, r.actor)' <=> IsParticipant(c, r.actor)
    BY DEF IsParticipant
  <1>3. ASSUME WroteOpening(r, c, o)
        PROVE  WroteOpening(r, c, o)'
    BY <1>1, <1>3 DEF WroteOpening, Exists
  <1>4. ASSUME WroteMessage(r, c, o)
        PROVE  WroteMessage(r, c, o)'
    <2>1. SameContext(o.rows[c], conversations[c])'
      BY <1>4 DEF WroteMessage, SameContext
    <2>2. \A e, m : SentPair(e, m) => SentPair(e, m)'
      BY DEF SentPair
    <2> QED
      BY <1>1, <1>2, <1>4, <2>1, <2>2 DEF WroteMessage
  <1>5. ASSUME WroteReading(r, c, o)
        PROVE  WroteReading(r, c, o)'
    <2>1. FromOther(c, r.actor)' = FromOther(c, r.actor)
      BY DEF FromOther
    <2>2. \A anchor : Through(c, r.actor, anchor)' = Through(c, r.actor, anchor)
      BY <2>1 DEF Through
    <2>3. 1..now \subseteq 1..now'
      OBVIOUS
    <2> QED
      BY <1>1, <1>2, <1>5, <2>1, <2>2, <2>3 DEF WroteReading
  <1> QED
    BY <1>3, <1>4, <1>5 DEF Waiting

(* The tables stay right while they stay the same. *)
LEMMA TablesStay ==
  ASSUME IInv, UNCHANGED tables, \A i : Made(i) => Made(i)', PairsApart'
  PROVE  TableInv' /\ RowsOK' /\ LedgerTrue' /\ SentOnce'
  <1>1. MessagesOK' /\ EventsOK'
    BY DEF IInv, TableInv, MessagesOK, EventsOK, tables, Exists, IsParticipant, SentEvents
  <1>3. ReadIsPrefix' /\ ReadIsTold'
    <2>1. \A c, a : FromOther(c, a)' = FromOther(c, a) /\ ReadEvents(c, a)' = ReadEvents(c, a)
      BY DEF tables, FromOther, In, ReadEvents
    <2>2. \A c, a : (Exists(c)' <=> Exists(c)) /\ (IsParticipant(c, a)' <=> IsParticipant(c, a))
      BY DEF tables, Exists, IsParticipant
    <2>3. ReadIsPrefix'
      BY <2>1, <2>2 DEF IInv, TableInv, ReadIsPrefix, Before, Less
    <2>4. \A c, a : ReadOf(c, a)' = ReadOf(c, a)
      BY <2>1 DEF ReadOf
    <2>5. ReadIsTold'
      BY <2>1, <2>2, <2>4 DEF IInv, TableInv, ReadIsTold
    <2> QED
      BY <2>3, <2>5
  <1>4. RowsOK'
    BY DEF IInv, ControlInv, RowsOK, tables, Exists, OfContext
  <1>5. LedgerTrue' /\ SentOnce'
    BY DEF IInv, ResultInv, LedgerTrue, SentOnce, ReadyFor, SentFor, tables, OfContext, Exists
  <1> QED
    BY <1>1, <1>3, <1>4, <1>5 DEF TableInv

(* A step that writes no table and sends no new message. *)
LEMMA QuietStep ==
  ASSUME IInv, UNCHANGED tables, now' \in Nat, now <= now', \A i : Made(i) => Made(i)',
         \A w \in Worker : Committing(w)' => tx'[w] = tx[w]
  PROVE  Writing' /\ TableInv' /\ RowsOK' /\ LedgerTrue' /\ SentOnce'
  <1>1. \A w \in Worker : SentBy(w)' \subseteq SentBy(w)
    BY DEF SentBy, Committing
  <1>2. Writing'
    <2> SUFFICES ASSUME NEW w \in Worker, NEW r, NEW c, NEW o, Committing(w)',
                        r = tx'[w].req, c = tx'[w].conv, o = tx'[w].out
                 PROVE  Waiting(r, c, o)'
      BY DEF Writing
    <2>1. tx'[w] = tx[w] /\ Committing(w)
      BY DEF Committing
    <2>2. Waiting(r, c, o)
      BY <2>1 DEF IInv, Writing
    <2>4. /\ conversations'[c] = conversations[c]
          /\ OfContext(r.product, r.actor)' = OfContext(r.product, r.actor)
          /\ In(c)' = In(c) /\ ReadEvents(c, r.actor)' = ReadEvents(c, r.actor)
      BY DEF tables, OfContext, Exists, In, ReadEvents
    <2>5. now \in Nat
      BY DEF IInv, ControlInv, IdsOK
    <2> QED
      BY <2>2, <2>4, <2>5, WaitingStays
  <1>3. PairsApart'
    <2>1. SentEvents' = SentEvents
      BY DEF tables, SentEvents
    <2>2. PairsApart
      BY DEF IInv, TableInv
    <2>3. \A d, e \in SentEvents' : d = e \/ Apart(d, e)
      BY <2>1, <2>2 DEF PairsApart
    <2>4. \A w \in Worker : \A d \in SentBy(w)', e \in SentEvents' : Apart(d, e)
      BY <1>1, <2>1, <2>2 DEF PairsApart
    <2>5. \A v, w \in Worker : v # w => \A d \in SentBy(v)', e \in SentBy(w)' : Apart(d, e)
      BY <1>1, <2>2 DEF PairsApart
    <2> QED
      BY <2>3, <2>4, <2>5 DEF PairsApart, Apart
  <1> QED
    BY <1>2, <1>3, TablesStay

-----------------------------------------------------------------------------
(* Locks and the budget of identifiers. *)

LEMMA LocksStay ==
  ASSUME IInv, NEW w \in Worker,
         \A v \in Worker \ {w} : tx'[v] = tx[v],
         \A v \in Worker \ {w} : \A p, b : Inserting(v, p, b)' => Inserting(v, p, b),
         \A v \in Worker \ {w} : \A l : HoldsKey(w, l)' => ~HoldsKey(v, l),
         \A v \in Worker \ {w} : \A c : HoldsRow(w, c)' => ~HoldsRow(v, c),
         \A v \in Worker \ {w} : \A p, b : Inserting(w, p, b)' => ~Inserting(v, p, b)
  PROVE  LocksOK'
  <1>1. \A v \in Worker \ {w} : \A l : HoldsKey(v, l)' => HoldsKey(v, l)
    BY DEF HoldsKey
  <1>2. \A v \in Worker \ {w} : \A c : HoldsRow(v, c)' => HoldsRow(v, c)
    BY DEF HoldsRow
  <1>3. LocksOK
    BY DEF IInv, ControlInv
  <1>4. \A u, v \in Worker : u # v => \A l : ~(HoldsKey(u, l)' /\ HoldsKey(v, l)')
    BY <1>1, <1>3 DEF LocksOK
  <1>5. \A u, v \in Worker : u # v => \A c : ~(HoldsRow(u, c)' /\ HoldsRow(v, c)')
    BY <1>2, <1>3 DEF LocksOK
  <1>6. \A u, v \in Worker : u # v => \A p, b : ~(Inserting(u, p, b)' /\ Inserting(v, p, b)')
    BY <1>3 DEF LocksOK
  <1> QED
    BY <1>4, <1>5, <1>6 DEF LocksOK

LEMMA BudgetStays ==
  ASSUME IInv, NEW w \in Worker, NEW x, tx' = [tx EXCEPT ![w] = x], UNCHANGED <<now, last>>,
         \/ sent' = sent /\ (x.pc \in {"idle", "commit"} \/ tx[w].pc \notin {"idle", "commit"})
         \/ sent' = sent + 1 /\ sent < MaxSends /\ tx[w].pc = "idle"
  PROVE  IdsOK'
  <1>1. /\ now \in Nat /\ now > 0 /\ last \in Id /\ last.ms <= now
        /\ sent \in Nat /\ sent <= MaxSends
        /\ IsFiniteSet(Begun) /\ Cardinality(Begun) <= sent
        /\ last.ms = now => Room(last.entropy) >= 2 * Left
    BY DEF IInv, ControlInv, IdsOK
  <1>2. /\ \A v \in Worker \ {w} : tx'[v] = tx[v]
        /\ tx'[w] = x
    BY DEF IInv, ControlInv, TxOK
  <1>3. Cardinality(Begun) \in Nat /\ MaxSends \in Nat /\ Room(last.entropy) \in Nat
    BY <1>1, FS_CardinalityType, RandomAssumption, IncrementUsesRoom DEF Id
  <1>4. /\ IsFiniteSet(Begun')
        /\ Cardinality(Begun') \in Nat
        /\ Cardinality(Begun') <= Cardinality(Begun) + (sent' - sent)
    <2>1. CASE sent' = sent
      <3>1. Begun' \subseteq Begun
        BY <1>1, <1>2, <2>1 DEF Begun
      <3>2. IsFiniteSet(Begun') /\ Cardinality(Begun') <= Cardinality(Begun)
        BY <1>1, <3>1, FS_Subset
      <3>3. Cardinality(Begun') \in Nat
        BY <3>2, FS_CardinalityType
      <3> QED
        BY <1>1, <1>3, <2>1, <3>2, <3>3
    <2>2. CASE sent' = sent + 1
      <3>1. Begun' \subseteq Begun \cup {w} /\ w \notin Begun
        BY <1>1, <1>2, <2>2 DEF Begun
      <3>2. IsFiniteSet(Begun \cup {w}) /\ Cardinality(Begun \cup {w}) = Cardinality(Begun) + 1
        BY <1>1, <3>1, FS_AddElement
      <3>3. IsFiniteSet(Begun') /\ Cardinality(Begun') <= Cardinality(Begun) + 1
        BY <3>1, <3>2, FS_Subset
      <3>4. Cardinality(Begun') \in Nat
        BY <3>3, FS_CardinalityType
      <3> QED
        BY <1>1, <1>3, <2>2, <3>3, <3>4
    <2> QED
      BY <2>1, <2>2
  <1>5. sent' \in Nat /\ sent' <= MaxSends
    BY <1>1, <1>3
  <1>6. Left \in Int /\ Left' \in Int /\ Left' <= Left
    BY <1>1, <1>3, <1>4, <1>5 DEF Left
  <1>7. last'.ms = now' => Room(last'.entropy) >= 2 * Left'
    BY <1>1, <1>3, <1>6
  <1>8. Cardinality(Begun') <= sent'
    BY <1>1, <1>3, <1>4, <1>5
  <1> QED
    BY <1>1, <1>4, <1>5, <1>7, <1>8 DEF IdsOK

(* A request goes on to another step, or is over, without writing. *)
LEMMA AdvanceKeepsInvariant ==
  ASSUME IInv, NEW w \in Worker, NEW x, tx' = [tx EXCEPT ![w] = x],
         UNCHANGED <<tables, now, last>>,
         x.pc # "commit", Knows(x),
         x.pc \in {"key", "lock", "work"} /\ ~Opens(x.req) => Exists(x.conv),
         x.pc = "work" => IsParticipant(x.conv, x.req.actor),
         \A v \in Worker \ {w} : \A l : HoldsKey(w, l)' => ~HoldsKey(v, l),
         \A v \in Worker \ {w} : \A c : HoldsRow(w, c)' => ~HoldsRow(v, c),
         x.pc \notin {"idle", "key"} /\ Keyed(x.req) => ledger[IdOf(x.req)] = NoResult,
         \/ sent' = sent /\ (x.pc = "idle" \/ tx[w].pc \notin {"idle", "commit"})
         \/ sent' = sent + 1 /\ sent < MaxSends /\ tx[w].pc = "idle",
         AnswersOK'
  PROVE  IInv'
  <1>1. /\ \A v \in Worker \ {w} : tx'[v] = tx[v]
        /\ tx'[w] = x
        /\ tx' = [v \in Worker |-> tx'[v]]
    BY DEF IInv, ControlInv, TxOK
  <1>2. TxOK'
    <2>1. \A v \in Worker : Knows(tx'[v])
      BY <1>1 DEF IInv, ControlInv, TxOK
    <2> QED
      BY <1>1, <2>1 DEF TxOK
  <1>3. Found'
    <2>1. \A c, a : (Exists(c)' <=> Exists(c)) /\ (IsParticipant(c, a)' <=> IsParticipant(c, a))
      BY DEF tables, Exists, IsParticipant
    <2> SUFFICES ASSUME NEW v \in Worker, NEW y, y = tx'[v]
                 PROVE  /\ y.pc \in {"key", "lock", "work"} /\ ~Opens(y.req) => Exists(y.conv)'
                        /\ y.pc = "work" => IsParticipant(y.conv, y.req.actor)'
      BY DEF Found, Exists, IsParticipant, Opens
    <2>2. CASE v = w
      BY <1>1, <2>1, <2>2
    <2>3. CASE v # w
      BY <1>1, <2>1, <2>3 DEF IInv, ControlInv, Found
    <2> QED
      BY <2>2, <2>3
  <1>4. LocksOK'
    <2>1. \A v \in Worker \ {w} : \A p, b : Inserting(v, p, b)' => Inserting(v, p, b)
      BY <1>1 DEF Inserting, tables, Exists
    <2>2. \A p, b : ~Inserting(w, p, b)'
      BY <1>1 DEF Inserting
    <2> QED
      BY <1>1, <2>1, <2>2, LocksStay
  <1>5. KeysFresh'
    <2> SUFFICES ASSUME NEW v \in Worker, NEW y, y = tx'[v],
                        y.pc \notin {"idle", "key"}, Keyed(y.req)
                 PROVE  ledger[IdOf(y.req)] = NoResult
      BY DEF KeysFresh, tables, Keyed, IdOf
    <2>1. CASE v = w
      BY <1>1, <2>1
    <2>2. CASE v # w
      BY <1>1, <2>2 DEF IInv, ControlInv, KeysFresh
    <2> QED
      BY <2>1, <2>2
  <1>6. IdsOK'
    BY BudgetStays
  <1>7. Writing' /\ TableInv' /\ RowsOK' /\ LedgerTrue' /\ SentOnce'
    <2>1. now \in Nat /\ last \in Id /\ IdsOK
      BY DEF IInv, ControlInv, IdsOK
    <2>2. \A i : Made(i) => Made(i)'
      BY <2>1, MadeStays
    <2>3. \A v \in Worker : Committing(v)' => tx'[v] = tx[v]
      BY <1>1 DEF Committing
    <2> QED
      BY <2>1, <2>2, <2>3, QuietStep
  <1> QED
    BY <1>2, <1>3, <1>4, <1>5, <1>6, <1>7 DEF IInv, ControlInv, ResultInv

LEMMA AnswersStay ==
  ASSUME IInv, UNCHANGED tables
  PROVE  /\ \A p, b, result : ReadyFor(p, b, result)' <=> ReadyFor(p, b, result)
         /\ \A a, result : SentFor(a, result)' <=> SentFor(a, result)
         /\ answers' = answers => AnswersOK'
  <1>1. \A p, b, result : ReadyFor(p, b, result)' <=> ReadyFor(p, b, result)
    BY DEF ReadyFor, OfContext, Exists, tables
  <1>2. \A a, result : SentFor(a, result)' <=> SentFor(a, result)
    BY DEF SentFor, tables
  <1>3. answers' = answers => AnswersOK'
    BY <1>1, <1>2 DEF IInv, ResultInv, AnswersOK
  <1> QED
    BY <1>1, <1>2, <1>3

(* A worker that has no transaction any more holds nothing. *)
LEMMA IdleHoldsNothing ==
  ASSUME NEW w \in Worker, tx'[w] = Idle
  PROVE  /\ \A l : ~HoldsKey(w, l)'
         /\ \A c : ~HoldsRow(w, c)'
         /\ \A p, b : ~Inserting(w, p, b)'
  BY DEF Idle, HoldsKey, HoldsRow, Inserting

LEMMA RollBackKeepsInvariant ==
  ASSUME IInv, NEW w \in Worker, RollBack(w)
  PROVE  IInv'
  <1>1. tx' = [tx EXCEPT ![w] = Idle] /\ UNCHANGED <<tables, now, last, sent, answers>>
    BY DEF RollBack
  <1>2. tx'[w] = Idle
    BY <1>1 DEF IInv, ControlInv, TxOK
  <1>3. Knows(Idle) /\ Idle.pc = "idle"
    BY DEF Knows, Idle
  <1>4. AnswersOK'
    BY <1>1, AnswersStay
  <1> QED
    BY <1>1, <1>2, <1>3, <1>4, IdleHoldsNothing, AdvanceKeepsInvariant

LEMMA ReplayKeepsInvariant ==
  ASSUME IInv, NEW w \in Worker, Replay(w)
  PROVE  IInv'
  <1> DEFINE r == tx[w].req
  <1>1. /\ tx' = [tx EXCEPT ![w] = Idle] /\ UNCHANGED <<tables, now, last, sent>>
        /\ answers' = answers \cup {[req |-> r, result |-> ledger[IdOf(r)]]}
        /\ tx[w].pc = "key" /\ ledger[IdOf(r)] # NoResult
    BY DEF Replay
  <1>2. tx'[w] = Idle
    BY <1>1 DEF IInv, ControlInv, TxOK
  <1>3. Knows(Idle) /\ Idle.pc = "idle"
    BY DEF Knows, Idle
  <1>4. r \in Request /\ Keyed(r)
    BY <1>1, Steps DEF IInv, ControlInv, TxOK
  <1>5. ReadyFor(r.product, r.actor, ledger[IdOf(r)]) \/ SentFor(r.actor, ledger[IdOf(r)])
    BY <1>1, <1>4, Requests DEF IInv, ResultInv, LedgerTrue
  <1>6. AnswersOK'
    <2> SUFFICES ASSUME NEW x \in answers'
                 PROVE  \/ ReadyFor(x.req.product, x.req.actor, x.result)
                        \/ SentFor(x.req.actor, x.result)
                        \/ x.result = [code |-> "READ"]
      BY <1>1, AnswersStay DEF AnswersOK
    <2>1. CASE x \in answers
      BY <2>1 DEF IInv, ResultInv, AnswersOK
    <2>2. CASE x = [req |-> r, result |-> ledger[IdOf(r)]]
      BY <1>5, <2>2
    <2> QED
      BY <1>1, <2>1, <2>2
  <1> QED
    BY <1>1, <1>2, <1>3, <1>6, IdleHoldsNothing, AdvanceKeepsInvariant

LEMMA MissKeepsInvariant ==
  ASSUME IInv, NEW w \in Worker, Miss(w)
  PROVE  IInv'
  <1> DEFINE y == tx[w]
             x == [y EXCEPT !.pc = WorkStep(y.req)]
  <1>1. /\ y.pc = "key" /\ KeyFree(w) /\ ledger[IdOf(y.req)] = NoResult
        /\ tx' = [tx EXCEPT ![w] = x]
        /\ UNCHANGED <<tables, now, last, sent, answers>>
    BY DEF Miss, Enter
  <1>2. Knows(y) /\ tx'[w] = x /\ Found /\ KeysFresh
    BY <1>1 DEF IInv, ControlInv, TxOK
  <1>3. /\ Knows(x) /\ x.req = y.req
        /\ x.pc \in {"insert", "lock"} /\ (x.pc = "insert" <=> Opens(y.req))
        /\ ~Opens(y.req) => x.conv = y.conv
    <2>1. CASE Opens(y.req)
      <3>1. y \in [pc : {"key", "insert"}, req : Openings, conv : {Null}]
        BY <1>1, <1>2, <2>1, Steps
      <3> QED
        BY <2>1, <3>1 DEF Knows, WorkStep, Opens
    <2>2. CASE ~Opens(y.req)
      <3>1. y \in [pc : {"key", "lock", "work"}, req : Sendings, conv : Conv]
        <4>1. y \notin [pc : {"lock", "work"}, req : Readings, conv : Conv, anchor : Id]
          BY <1>1
        <4> QED
          BY <1>1, <1>2, <2>2, <4>1, Steps
      <3> QED
        BY <2>2, <3>1 DEF Knows, WorkStep, Opens
    <2> QED
      BY <2>1, <2>2
  <1>4. ~Opens(y.req) => Exists(y.conv)
    BY <1>1, <1>2 DEF Found
  <1>5. \A v \in Worker \ {w} : \A l : HoldsKey(w, l)' => ~HoldsKey(v, l)
    <2>1. \A l : HoldsKey(w, l)' => l = LockId(IdOf(y.req))
      BY <1>2, <1>3 DEF HoldsKey
    <2> QED
      BY <1>1, <2>1 DEF KeyFree
  <1>6. \A c : ~HoldsRow(w, c)'
    BY <1>2, <1>3 DEF HoldsRow
  <1>7. AnswersOK'
    BY <1>1, AnswersStay
  <1> HIDE DEF x, y
  <1>8. tx[w].pc \notin {"idle", "commit"}
    BY <1>1 DEF y
  <1> QED
    BY <1>1, <1>3, <1>4, <1>5, <1>6, <1>7, <1>8, AdvanceKeepsInvariant

LEMMA LockKeepsInvariant ==
  ASSUME IInv, NEW w \in Worker, LockConversation(w)
  PROVE  IInv'
  <1> DEFINE y == tx[w]
             x == [y EXCEPT !.pc = "work"]
  <1>1. /\ y.pc = "lock" /\ IsParticipant(y.conv, y.req.actor)
        /\ \A v \in Worker \ {w} : ~HoldsRow(v, y.conv)
        /\ tx' = [tx EXCEPT ![w] = x]
        /\ UNCHANGED <<tables, now, last, sent, answers>>
    BY DEF LockConversation, Enter
  <1>2. Knows(y) /\ tx'[w] = x /\ Found /\ KeysFresh /\ LocksOK
    BY <1>1 DEF IInv, ControlInv, TxOK
  <1>3. Knows(x) /\ x.req = y.req /\ x.pc = "work" /\ x.conv = y.conv /\ ~Opens(y.req)
    <2>1. \/ y \in [pc : {"key", "lock", "work"}, req : Sendings, conv : Conv]
          \/ y \in [pc : {"lock", "work"}, req : Readings, conv : Conv, anchor : Id]
      BY <1>1, <1>2, Steps
    <2> QED
      BY <1>1, <1>2, <2>1, Steps DEF Knows
  <1>4. Exists(y.conv)
    BY <1>1, <1>2, <1>3 DEF Found
  <1>5. Keyed(y.req) => ledger[IdOf(y.req)] = NoResult
    BY <1>1, <1>2 DEF KeysFresh
  <1>6. \A v \in Worker \ {w} : \A l : HoldsKey(w, l)' => ~HoldsKey(v, l)
    <2>1. \A l : HoldsKey(w, l)' => HoldsKey(w, l)
      BY <1>1, <1>2, <1>3 DEF HoldsKey
    <2> QED
      BY <1>2, <2>1 DEF LocksOK
  <1>7. \A v \in Worker \ {w} : \A c : HoldsRow(w, c)' => ~HoldsRow(v, c)
    <2>1. \A c : HoldsRow(w, c)' => c = y.conv
      BY <1>2, <1>3 DEF HoldsRow
    <2> QED
      BY <1>1, <2>1
  <1>8. AnswersOK'
    BY <1>1, AnswersStay
  <1>9. tx[w].pc \notin {"idle", "commit"}
    BY <1>1
  <1> HIDE DEF x, y
  <1> QED
    BY <1>1, <1>3, <1>4, <1>5, <1>6, <1>7, <1>8, <1>9, AdvanceKeepsInvariant

LEMMA BeginKeepsInvariant ==
  ASSUME IInv, NEW w \in Worker, NEW r \in Request, Begin(w, r)
  PROVE  IInv'
  <1>1. /\ tx[w].pc = "idle" /\ sent < MaxSends /\ sent' = sent + 1
        /\ UNCHANGED <<tables, now, last, answers>>
    BY DEF Begin
  <1>2. AnswersOK'
    BY <1>1, AnswersStay
  <1>3. ASSUME NEW x, tx' = [tx EXCEPT ![w] = x], Knows(x), x.req = r,
               x.pc \in {"key", "insert", "lock"}, x.pc # "key" => ~Keyed(r),
               ~Opens(r) => Exists(x.conv)
        PROVE  IInv'
    <2>1. tx'[w] = x
      BY <1>3 DEF IInv, ControlInv, TxOK
    <2>2. \A l : ~HoldsKey(w, l)'
      BY <1>3, <2>1 DEF HoldsKey, Keyed
    <2>3. \A c : ~HoldsRow(w, c)'
      BY <1>3, <2>1 DEF HoldsRow
    <2> QED
      BY <1>1, <1>2, <1>3, <2>2, <2>3, AdvanceKeepsInvariant
  <1>4. CASE r.op = "conversation.get_or_create"
    <2> DEFINE x == [pc |-> FirstStep(r), req |-> r, conv |-> Null]
    <2>1. tx' = [tx EXCEPT ![w] = x]
      BY <1>4 DEF Begin
    <2>2. Knows(x) /\ Opens(r) /\ (x.pc # "key" => ~Keyed(r))
      BY <1>4 DEF Knows, Openings, Opens, FirstStep, WorkStep
    <2>3. x.pc \in {"key", "insert"} /\ x.req = r
      BY <1>4 DEF FirstStep, WorkStep
    <2> HIDE DEF x
    <2> QED
      BY <1>3, <2>1, <2>2, <2>3
  <1>5. CASE r.op = "message.send"
    <2>1. PICK c \in Conv :
            Exists(c) /\ tx' = [tx EXCEPT ![w] = [pc |-> FirstStep(r), req |-> r, conv |-> c]]
      BY <1>5, Zenon DEF Begin
    <2> DEFINE x == [pc |-> FirstStep(r), req |-> r, conv |-> c]
    <2>2. /\ x.pc \in {"key", "lock"}
          /\ Keyed(r) <=> x.pc = "key"
      BY <1>5 DEF FirstStep, WorkStep
    <2>4. Knows(x)
      BY <1>5, <2>2 DEF Knows, Sendings, Sends
    <2>3. x.req = r /\ x.conv = c /\ tx' = [tx EXCEPT ![w] = x]
      BY <2>1
    <2> HIDE DEF x
    <2> QED
      BY <1>3, <2>1, <2>2, <2>3, <2>4
  <1>6. CASE r.op = "conversation.read"
    <2>1. PICK m \in messages :
            tx' = [tx EXCEPT ![w] = [pc |-> "lock", req |-> r, conv |-> m.conv,
                                     anchor |-> m.id]]
      BY <1>6 DEF Begin
    <2> DEFINE x == [pc |-> "lock", req |-> r, conv |-> m.conv, anchor |-> m.id]
    <2>2. m.conv \in Conv /\ m.id \in Id /\ Exists(m.conv)
      BY DEF IInv, TableInv, MessagesOK
    <2>3. ~Keyed(r) /\ Reads(r)
      BY <1>6, Requests DEF Reads
    <2>4. Knows(x)
      BY <2>2, <2>3 DEF Knows, Readings
    <2>5. x.pc = "lock" /\ x.req = r /\ x.conv = m.conv /\ tx' = [tx EXCEPT ![w] = x]
      BY <2>1
    <2> HIDE DEF x
    <2> QED
      BY <1>3, <2>2, <2>3, <2>4, <2>5
  <1> QED
    BY <1>4, <1>5, <1>6 DEF Begin

(* Time passes, and with it perhaps every request that was under way. *)
LEMMA TimeKeepsInvariant ==
  ASSUME IInv, Tick \/ Restart
  PROVE  IInv'
  <1>1. /\ UNCHANGED <<tables, sent, answers>>
        /\ now' = now + 1
        /\ now \in Nat /\ now > 0 /\ last \in Id /\ IdsOK /\ TxOK
    BY DEF Tick, Restart, IInv, ControlInv, IdsOK
  <1>2. NewGenerator \in Id /\ NewGenerator.ms = 0
    BY EntropyAssumption DEF NewGenerator, Id, Entropy
  <1>3. last' \in Id /\ last'.ms < now'
    BY <1>1, <1>2 DEF Tick, Restart, IdsOK, Id
  <1>4. \A w \in Worker : tx'[w] = tx[w] \/ tx'[w] = Idle
    BY DEF Tick, Restart
  <1>5. tx' = [w \in Worker |-> tx'[w]]
    BY <1>1 DEF Tick, Restart, TxOK
  <1>6. TxOK'
    <2>1. Knows(Idle)
      BY DEF Knows, Idle
    <2>2. \A w \in Worker : Knows(tx'[w])
      BY <1>1, <1>4, <2>1 DEF TxOK
    <2> QED
      BY <1>5, <2>2 DEF TxOK
  <1>7. Found'
    <2>1. \A c, a : (Exists(c)' <=> Exists(c)) /\ (IsParticipant(c, a)' <=> IsParticipant(c, a))
      BY <1>1 DEF tables, Exists, IsParticipant
    <2> SUFFICES ASSUME NEW v \in Worker, NEW y, y = tx'[v]
                 PROVE  /\ y.pc \in {"key", "lock", "work"} /\ ~Opens(y.req) => Exists(y.conv)'
                        /\ y.pc = "work" => IsParticipant(y.conv, y.req.actor)'
      BY DEF Found, Exists, IsParticipant, Opens
    <2>2. CASE y = tx[v]
      BY <2>1, <2>2 DEF IInv, ControlInv, Found
    <2>3. CASE y = Idle
      BY <2>3 DEF Idle
    <2> QED
      BY <1>4, <2>2, <2>3
  <1>8. LocksOK'
    <2>1. \A w \in Worker : \A l : HoldsKey(w, l)' => HoldsKey(w, l)
      BY <1>4 DEF HoldsKey, Idle
    <2>2. \A w \in Worker : \A c : HoldsRow(w, c)' => HoldsRow(w, c)
      BY <1>4 DEF HoldsRow, Idle
    <2>3. \A w \in Worker : \A p, b : Inserting(w, p, b)' => Inserting(w, p, b)
      BY <1>1, <1>4 DEF Inserting, Idle, tables, Exists
    <2> QED
      BY <2>1, <2>2, <2>3 DEF IInv, ControlInv, LocksOK
  <1>9. KeysFresh'
    <2> SUFFICES ASSUME NEW v \in Worker, NEW y, y = tx'[v],
                        y.pc \notin {"idle", "key"}, Keyed(y.req)
                 PROVE  ledger[IdOf(y.req)] = NoResult
      BY <1>1 DEF KeysFresh, tables, Keyed, IdOf
    <2>1. y = tx[v]
      BY <1>4 DEF Idle
    <2> QED
      BY <2>1 DEF IInv, ControlInv, KeysFresh
  <1>10. IdsOK'
    <2>1. Begun' \subseteq Begun
      BY <1>4 DEF Begun, Idle
    <2>2. IsFiniteSet(Begun') /\ Cardinality(Begun') <= Cardinality(Begun)
      BY <1>1, <2>1, FS_Subset DEF IdsOK
    <2>3. Cardinality(Begun') \in Nat /\ Cardinality(Begun) \in Nat
      BY <1>1, <2>2, FS_CardinalityType DEF IdsOK
    <2>4. Cardinality(Begun') <= sent'
      BY <1>1, <2>2, <2>3 DEF IdsOK
    <2>5. now' \in Nat /\ now' > 0 /\ last'.ms <= now' /\ last'.ms # now'
      BY <1>1, <1>3 DEF Id
    <2> QED
      BY <1>1, <1>3, <2>2, <2>4, <2>5 DEF IdsOK
  <1>11. \A i : Made(i) => Made(i)'
    BY <1>1, <1>3, MadeStays
  <1>12. \A w \in Worker : Committing(w)' => tx'[w] = tx[w]
    BY <1>4 DEF Committing, Idle
  <1>13. Writing' /\ TableInv' /\ RowsOK' /\ LedgerTrue' /\ SentOnce'
    BY <1>1, <1>11, <1>12, QuietStep
  <1>14. AnswersOK'
    BY <1>1, AnswersStay
  <1> QED
    BY <1>6, <1>7, <1>8, <1>9, <1>10, <1>13, <1>14 DEF IInv, ControlInv, ResultInv

-----------------------------------------------------------------------------
(* A callback is done: its writes wait for the commit. *)

LEMMA WriteKeepsInvariant ==
  ASSUME IInv, NEW w \in Worker, NEW r, NEW c \in Conv, NEW o,
         r = tx[w].req, tx[w].pc \in {"insert", "work"},
         tx' = [tx EXCEPT ![w] = [pc |-> "commit", req |-> r, conv |-> c, out |-> o]],
         UNCHANGED <<tables, now, sent, answers>>,
         last' = last \/ Less(last, last'), IdsOK',
         Waiting(r, c, o)',
         \A v \in Worker \ {w} : ~HoldsRow(v, c),
         \A v \in Worker \ {w} : \A p, b : Inserting(w, p, b)' => ~Inserting(v, p, b),
         Sends(r) => \A d \in o.events :
           /\ \A e \in SentEvents : Apart(d, e)
           /\ \A v \in Worker \ {w} : \A e \in SentBy(v) : Apart(d, e)
  PROVE  IInv'
  <1> DEFINE x == [pc |-> "commit", req |-> r, conv |-> c, out |-> o]
  <1>1. /\ \A v \in Worker \ {w} : tx'[v] = tx[v]
        /\ tx'[w] = x
        /\ tx' = [v \in Worker |-> tx'[v]]
        /\ Knows(tx[w]) /\ r \in Request
    BY Steps DEF IInv, ControlInv, TxOK
  <1>2. x.pc = "commit" /\ x.req = r /\ x.conv = c /\ x.out = o
    OBVIOUS
  <1> HIDE DEF x
  <1>3. TxOK'
    <2>1. Knows(x)
      BY <1>1, <1>2 DEF Knows
    <2>2. \A v \in Worker : Knows(tx'[v])
      BY <1>1, <2>1 DEF IInv, ControlInv, TxOK
    <2> QED
      BY <1>1, <2>2 DEF TxOK
  <1>4. Found'
    <2>1. \A d, a : (Exists(d)' <=> Exists(d)) /\ (IsParticipant(d, a)' <=> IsParticipant(d, a))
      BY DEF tables, Exists, IsParticipant
    <2> SUFFICES ASSUME NEW v \in Worker, NEW y, y = tx'[v]
                 PROVE  /\ y.pc \in {"key", "lock", "work"} /\ ~Opens(y.req) => Exists(y.conv)'
                        /\ y.pc = "work" => IsParticipant(y.conv, y.req.actor)'
      BY DEF Found, Exists, IsParticipant, Opens
    <2>2. CASE v = w
      BY <1>1, <1>2, <2>1, <2>2
    <2>3. CASE v # w
      BY <1>1, <2>1, <2>3 DEF IInv, ControlInv, Found
    <2> QED
      BY <2>2, <2>3
  <1>5. LocksOK'
    <2>1. \A v \in Worker \ {w} : \A p, b : Inserting(v, p, b)' => Inserting(v, p, b)
      BY <1>1 DEF Inserting, tables, Exists
    <2>2. \A l : HoldsKey(w, l)' => HoldsKey(w, l)
      BY <1>1, <1>2 DEF HoldsKey
    <2>3. \A v \in Worker \ {w} : \A l : HoldsKey(w, l)' => ~HoldsKey(v, l)
      BY <2>2 DEF IInv, ControlInv, LocksOK
    <2>4. \A d : HoldsRow(w, d)' => d = c
      BY <1>1, <1>2 DEF HoldsRow
    <2>5. \A v \in Worker \ {w} : \A d : HoldsRow(w, d)' => ~HoldsRow(v, d)
      BY <2>4
    <2> QED
      BY <1>1, <2>1, <2>3, <2>5, LocksStay
  <1>6. KeysFresh'
    <2> SUFFICES ASSUME NEW v \in Worker, NEW y, y = tx'[v],
                        y.pc \notin {"idle", "key"}, Keyed(y.req)
                 PROVE  ledger[IdOf(y.req)] = NoResult
      BY DEF KeysFresh, tables, Keyed, IdOf
    <2>1. CASE v = w
      BY <1>1, <1>2, <2>1 DEF IInv, ControlInv, KeysFresh
    <2>2. CASE v # w
      BY <1>1, <2>2 DEF IInv, ControlInv, KeysFresh
    <2> QED
      BY <2>1, <2>2
  <1>7. now \in Nat /\ \A i : Made(i) => Made(i)'
    <2>1. now \in Nat /\ IdsOK
      BY DEF IInv, ControlInv, IdsOK
    <2>2. last' \in Id
      BY DEF IdsOK
    <2> QED
      BY <2>1, <2>2, MadeStays
  <1>8. Writing'
    <2> SUFFICES ASSUME NEW v \in Worker, NEW q, NEW d, NEW p, Committing(v)',
                        q = tx'[v].req, d = tx'[v].conv, p = tx'[v].out
                 PROVE  Waiting(q, d, p)'
      BY DEF Writing
    <2>1. CASE v = w
      BY <1>1, <1>2, <2>1
    <2>2. CASE v # w
      <3>1. Waiting(q, d, p)
        BY <1>1, <2>2 DEF IInv, Writing, Committing
      <3>2. /\ conversations'[d] = conversations[d]
            /\ OfContext(q.product, q.actor)' = OfContext(q.product, q.actor)
            /\ In(d)' = In(d) /\ ReadEvents(d, q.actor)' = ReadEvents(d, q.actor)
        BY DEF tables, OfContext, Exists, In, ReadEvents
      <3> QED
        BY <1>7, <3>1, <3>2, WaitingStays
    <2> QED
      BY <2>1, <2>2
  <1>9. PairsApart'
    <2>1. PairsApart /\ SentEvents' = SentEvents
      BY DEF IInv, TableInv, tables, SentEvents
    <2>2. \A v \in Worker \ {w} : SentBy(v)' = SentBy(v)
      BY <1>1 DEF SentBy, Committing
    <2>3. \A d \in SentBy(w)' : Sends(r) /\ d \in o.events
      BY <1>1, <1>2 DEF SentBy
    <2>4. \A v \in Worker : \A d \in SentBy(v)', e \in SentEvents : Apart(d, e)
      BY <2>1, <2>2, <2>3 DEF PairsApart
    <2>5. \A u, v \in Worker : u # v => \A d \in SentBy(u)', e \in SentBy(v)' : Apart(d, e)
      <3> SUFFICES ASSUME NEW u \in Worker, NEW v \in Worker, u # v,
                          NEW d \in SentBy(u)', NEW e \in SentBy(v)'
                   PROVE  Apart(d, e)
        OBVIOUS
      <3>1. CASE u = w
        BY <2>2, <2>3, <3>1
      <3>2. CASE v = w
        <4>1. Apart(e, d)
          BY <2>2, <2>3, <3>2
        <4> QED
          BY <4>1 DEF Apart
      <3>3. CASE u # w /\ v # w
        BY <2>1, <2>2, <3>3 DEF PairsApart
      <3> QED
        BY <3>1, <3>2, <3>3
    <2>6. \A d, e \in SentEvents : d = e \/ Apart(d, e)
      BY <2>1 DEF PairsApart
    <2> QED
      BY <2>1, <2>4, <2>5, <2>6 DEF PairsApart, Apart
  <1>10. TableInv' /\ RowsOK' /\ LedgerTrue' /\ SentOnce'
    BY <1>7, <1>9, TablesStay
  <1>11. AnswersOK'
    BY AnswersStay
  <1> QED
    BY <1>3, <1>4, <1>5, <1>6, <1>8, <1>10, <1>11 DEF IInv, ControlInv, ResultInv

LEMMA AnswerKeepsInvariant ==
  ASSUME IInv, NEW w \in Worker, AnswerExisting(w)
  PROVE  IInv'
  <1> SUFFICES ASSUME NEW r, r = tx[w].req
               PROVE  IInv'
    OBVIOUS
  <1>1. /\ tx[w].pc = "insert" /\ Askable(r)
        /\ UNCHANGED <<tables, now, last, sent, answers>>
    BY DEF AnswerExisting
  <1>2. PICK c \in OfContext(r.product, r.actor) :
          /\ \A v \in Worker \ {w} : ~HoldsRow(v, c)
          /\ Wrote(w, c, Outcome(Nothing, {}, {},
               [code |-> "CONVERSATION_READY", conv |-> c, view |-> View(c, r.actor)]))
    BY DEF AnswerExisting
  <1>3. PICK o : o = Outcome(Nothing, {}, {},
          [code |-> "CONVERSATION_READY", conv |-> c, view |-> View(c, r.actor)])
    OBVIOUS
  <1> DEFINE x == [pc |-> "commit", req |-> r, conv |-> c, out |-> o]
  <1>4. tx' = [tx EXCEPT ![w] = x]
    BY <1>2, <1>3 DEF Wrote
  <1>5. /\ o.rows = Nothing /\ o.put = {} /\ o.events = {}
        /\ o.result.code = "CONVERSATION_READY" /\ o.result.conv = c
    BY <1>3 DEF Outcome
  <1>6. Opens(r) /\ ~Sends(r) /\ c \in Conv
    BY <1>1, Steps, Requests DEF IInv, ControlInv, TxOK, OfContext
  <1>7. c \in OfContext(r.product, r.actor)'
    BY <1>1 DEF tables, OfContext, Exists
  <1>8. Waiting(r, c, o)'
    BY <1>1, <1>5, <1>6, <1>7 DEF Waiting, WroteOpening
  <1>9. x.pc = "commit" /\ x.out = o /\ tx'[w] = x
    BY <1>4 DEF IInv, ControlInv, TxOK
  <1>10. \A p, b : ~Inserting(w, p, b)'
    BY <1>5, <1>9 DEF Inserting, Nothing
  <1> HIDE DEF x
  <1>11. IdsOK'
    BY <1>1, <1>4, <1>9, BudgetStays
  <1> QED
    BY <1>1, <1>2, <1>4, <1>6, <1>8, <1>10, <1>11, WriteKeepsInvariant DEF x

(* Whoever holds the row of a conversation that is not there inserted it. *)
LEMMA RowsHeldExist ==
  ASSUME IInv, NEW v \in Worker, NEW c \in Conv, HoldsRow(v, c), ~Exists(c)
  PROVE  Committing(v) /\ c \in DOMAIN tx[v].out.rows
  <1>1. CASE tx[v].pc = "work"
    <2>1. ~Opens(tx[v].req)
      BY <1>1, Steps DEF IInv, ControlInv, TxOK
    <2> QED
      BY <1>1, <2>1 DEF IInv, ControlInv, Found, HoldsRow
  <1>2. CASE tx[v].pc = "commit"
    <2> SUFFICES ASSUME NEW r, NEW o, r = tx[v].req, o = tx[v].out
                 PROVE  c \in DOMAIN o.rows
      BY <1>2 DEF Committing
    <2>1. Waiting(r, c, o)
      BY <1>2 DEF IInv, Writing, Committing, HoldsRow
    <2>2. WroteOpening(r, c, o) /\ c \notin OfContext(r.product, r.actor)
      BY <2>1 DEF Waiting, WroteMessage, WroteReading, OfContext
    <2>3. o.rows = Just(c, Row(r.product, r.actor))
      BY <2>2 DEF WroteOpening
    <2> QED
      BY <2>3 DEF Just
  <1> QED
    BY <1>1, <1>2 DEF HoldsRow

LEMMA InsertKeepsInvariant ==
  ASSUME IInv, NEW w \in Worker, InsertConversation(w)
  PROVE  IInv'
  <1> SUFFICES ASSUME NEW r, r = tx[w].req
               PROVE  IInv'
    OBVIOUS
  <1>1. /\ tx[w].pc = "insert" /\ Askable(r)
        /\ OfContext(r.product, r.actor) = {}
        /\ \A v \in Worker \ {w} : ~Inserting(v, r.product, r.actor)
        /\ UNCHANGED <<tables, now, last, sent, answers>>
    BY DEF InsertConversation
  <1>2. PICK c \in FreshConv :
          Wrote(w, c, Outcome(Just(c, Row(r.product, r.actor)), {}, {},
            [code |-> "CONVERSATION_READY", conv |-> c, view |-> View(c, r.actor)]))
    BY DEF InsertConversation
  <1>3. PICK o : o = Outcome(Just(c, Row(r.product, r.actor)), {}, {},
          [code |-> "CONVERSATION_READY", conv |-> c, view |-> View(c, r.actor)])
    OBVIOUS
  <1> DEFINE x == [pc |-> "commit", req |-> r, conv |-> c, out |-> o]
  <1>4. tx' = [tx EXCEPT ![w] = x]
    BY <1>2, <1>3 DEF Wrote
  <1>5. /\ o.rows = Just(c, Row(r.product, r.actor)) /\ o.put = {} /\ o.events = {}
        /\ o.result.code = "CONVERSATION_READY" /\ o.result.conv = c
    BY <1>3 DEF Outcome
  <1>6. Opens(r) /\ ~Sends(r) /\ c \in Conv /\ ~Exists(c)
    BY <1>1, Steps, Requests DEF IInv, ControlInv, TxOK, FreshConv
  <1>7. OfContext(r.product, r.actor)' = {} /\ ~Exists(c)'
    BY <1>1, <1>6 DEF tables, OfContext, Exists
  <1>8. Waiting(r, c, o)'
    BY <1>1, <1>5, <1>6, <1>7 DEF Waiting, WroteOpening, Row
  <1>9. x.pc = "commit" /\ x.out = o /\ tx'[w] = x
    BY <1>4 DEF IInv, ControlInv, TxOK
  <1>10. \A p, b : Inserting(w, p, b)' => p = r.product /\ b = r.actor
    <2>1. DOMAIN o.rows = {c} /\ o.rows[c].product = r.product /\ o.rows[c].buyer = r.actor
      BY <1>5 DEF Just, Row
    <2> QED
      BY <1>9, <2>1 DEF Inserting
  <1>11. \A v \in Worker \ {w} : ~HoldsRow(v, c)
    BY <1>6, RowsHeldExist DEF FreshConv, Committing
  <1> HIDE DEF x
  <1>12. IdsOK'
    BY <1>1, <1>4, <1>9, BudgetStays
  <1> QED
    BY <1>1, <1>4, <1>6, <1>8, <1>10, <1>11, <1>12, WriteKeepsInvariant DEF x

(* A request that is at work has its two identifiers to spend. *)
LEMMA BudgetSpent ==
  ASSUME IInv, NEW w \in Worker, tx[w].pc = "work"
  PROVE  /\ Left > 0
         /\ \A x :
              /\ tx' = [tx EXCEPT ![w] = x] /\ x.pc = "commit"
              /\ UNCHANGED <<now, sent>> /\ last' \in Id /\ last'.ms = now
              /\ Room(last'.entropy) >= 2 * Left - 2
              => IdsOK'
  <1>1. /\ now \in Nat /\ now > 0 /\ sent \in Nat /\ sent <= MaxSends
        /\ IsFiniteSet(Begun) /\ Cardinality(Begun) <= sent
    BY DEF IInv, ControlInv, IdsOK
  <1>2. Cardinality(Begun) \in Nat /\ MaxSends \in Nat
    BY <1>1, FS_CardinalityType, RandomAssumption
  <1>3. w \in Begun
    BY DEF Begun
  <1>4. IsFiniteSet(Begun \ {w}) /\ Cardinality(Begun \ {w}) = Cardinality(Begun) - 1
    BY <1>1, <1>3, FS_RemoveElement
  <1>5. Cardinality(Begun \ {w}) \in Nat
    BY <1>4, FS_CardinalityType
  <1>6. Left \in Int /\ Left > 0
    BY <1>1, <1>2, <1>4, <1>5 DEF Left
  <1>7. ASSUME NEW x, tx' = [tx EXCEPT ![w] = x], x.pc = "commit",
               UNCHANGED <<now, sent>>, last' \in Id, last'.ms = now,
               Room(last'.entropy) >= 2 * Left - 2
        PROVE  IdsOK'
    <2>1. Begun' = Begun \ {w}
      BY <1>7 DEF Begun, IInv, ControlInv, TxOK
    <2>2. Left' = Left - 1
      BY <1>1, <1>2, <1>4, <1>7, <2>1 DEF Left
    <2>3. Room(last'.entropy) \in Nat
      BY <1>7, IncrementUsesRoom DEF Id
    <2>4. Room(last'.entropy) >= 2 * Left'
      BY <1>6, <1>7, <2>2, <2>3
    <2>5. Cardinality(Begun') <= sent' /\ IsFiniteSet(Begun')
      BY <1>1, <1>2, <1>4, <1>5, <1>7, <2>1
    <2> QED
      BY <1>1, <1>7, <2>4, <2>5 DEF IdsOK
  <1> QED
    BY <1>6, <1>7

(* A request at work and the conversation whose row it has locked. *)
LEMMA AtWork ==
  ASSUME IInv, NEW w \in Worker, tx[w].pc = "work"
  PROVE  /\ tx[w].req \in Request /\ tx[w].conv \in Conv
         /\ Exists(tx[w].conv) /\ IsParticipant(tx[w].conv, tx[w].req.actor)
         /\ conversations[tx[w].conv] \in ConversationRow
         /\ HoldsRow(w, tx[w].conv)
         /\ \A v \in Worker \ {w} : ~HoldsRow(v, tx[w].conv)
  <1>1. Knows(tx[w]) /\ LocksOK /\ RowsOK /\ Found
    BY DEF IInv, ControlInv, TxOK
  <1>2. ~Opens(tx[w].req) /\ tx[w].req \in Request
    BY <1>1, Steps
  <1>3. tx[w].conv \in Conv
    BY <1>1, <1>2, Steps
  <1>4. Exists(tx[w].conv) /\ IsParticipant(tx[w].conv, tx[w].req.actor)
    BY <1>1, <1>2 DEF Found
  <1>5. conversations[tx[w].conv] \in ConversationRow
    BY <1>1, <1>3, <1>4 DEF RowsOK, Exists
  <1>6. HoldsRow(w, tx[w].conv)
    BY DEF HoldsRow
  <1> QED
    BY <1>1, <1>2, <1>3, <1>4, <1>5, <1>6 DEF LocksOK

(* The events of messages that wait for a commit. *)
LEMMA SentByIsMade ==
  ASSUME IInv, NEW v \in Worker, NEW e \in SentBy(v)
  PROVE  /\ Made(e.id) /\ Made(e.message) /\ Less(e.message, e.id)
         /\ Committing(v) /\ Sends(tx[v].req)
  <1>1. Committing(v) /\ Sends(tx[v].req) /\ e \in tx[v].out.events
    BY DEF SentBy
  <1>2. tx[v].req \in Request
    BY <1>1, Steps DEF IInv, ControlInv, TxOK, Committing
  <1>3. WroteMessage(tx[v].req, tx[v].conv, tx[v].out)
    <2>1. Waiting(tx[v].req, tx[v].conv, tx[v].out)
      BY <1>1 DEF IInv, Writing
    <2> QED
      BY <1>1, <1>2, <2>1, Requests DEF Waiting, WroteOpening, WroteReading
  <1> QED
    BY <1>1, <1>3 DEF WroteMessage, SentPair

LEMMA SendKeepsInvariant ==
  ASSUME IInv, NEW w \in Worker, SendMessage(w)
  PROVE  IInv'
  <1> SUFFICES ASSUME NEW r, r = tx[w].req, NEW c, c = tx[w].conv
               PROVE  IInv'
    OBVIOUS
  <1>1. tx[w].pc = "work" /\ Sends(r) /\ UNCHANGED <<tables, now, sent, answers>>
    BY DEF SendMessage, Sends
  <1>2. PICK random \in Random :
          LET i == New(last, now, random)
              j == New(i, now, random)
          IN  /\ last' = j
              /\ Wrote(w, c, Outcome(
                   Just(c, Touched(conversations[c], now)), {NewMessage(i, c, r)},
                   {MessageSent(j, c, i)},
                   [code |-> "MESSAGE_SENT", message |-> i]))
    BY DEF SendMessage
  <1>3. PICK id, eid : id = New(last, now, random) /\ eid = New(id, now, random)
    OBVIOUS
  <1>4. PICK row, m, e, o :
          /\ row = Touched(conversations[c], now)
          /\ m = NewMessage(id, c, r)
          /\ e = MessageSent(eid, c, id)
          /\ o = Outcome(Just(c, row), {m}, {e}, [code |-> "MESSAGE_SENT", message |-> id])
    OBVIOUS
  <1> DEFINE x == [pc |-> "commit", req |-> r, conv |-> c, out |-> o]
  <1>5. last' = eid /\ tx' = [tx EXCEPT ![w] = x]
    BY <1>2, <1>3, <1>4 DEF Wrote
  <1>6. /\ r \in Request /\ c \in Conv /\ Exists(c) /\ IsParticipant(c, r.actor)
        /\ conversations[c] \in ConversationRow
        /\ \A v \in Worker \ {w} : ~HoldsRow(v, c)
    BY <1>1, AtWork
  <1>7. Left > 0 /\ IdsOK /\ Left \in Int /\ now \in Nat /\ now > 0
    <2>1. IdsOK
      BY DEF IInv, ControlInv
    <2>2. Cardinality(Begun) \in Nat
      BY <2>1, FS_CardinalityType DEF IdsOK
    <2> QED
      BY <1>1, <2>1, <2>2, BudgetSpent, RandomAssumption DEF IdsOK, Left
  <1>8. /\ id \in Id /\ id.ms = now /\ \A i : Made(i) => Less(i, id)
        /\ Room(id.entropy) >= 2 * Left - 1
    BY <1>3, <1>7, NextIsAbove
  <1>9. /\ eid \in Id /\ eid.ms = now /\ Less(id, eid)
        /\ Room(eid.entropy) >= 2 * Left - 2
    <2>1. id.entropy \in Entropy /\ Room(id.entropy) \in Nat /\ Room(id.entropy) > 0
      BY <1>7, <1>8, IncrementUsesRoom DEF Id
    <2>2. eid.ms = now /\ eid.entropy = Increment(id.entropy)
      BY <1>3, <1>7, <1>8 DEF New
    <2>3. Room(eid.entropy) = Room(id.entropy) - 1
      BY <2>1, <2>2, IncrementUsesRoom
    <2>4. random \in Entropy
      BY RandomAssumption
    <2>5. eid \in Id /\ Less(id, eid)
      BY <1>3, <1>7, <1>8, <2>1, <2>4, NewIsId, NewIncreases
    <2> QED
      BY <1>7, <1>8, <2>1, <2>2, <2>3, <2>5
  <1>10. x.pc = "commit"
    OBVIOUS
  <1> HIDE DEF x
  <1>11. IdsOK'
    BY <1>1, <1>5, <1>7, <1>9, <1>10, BudgetSpent
  <1>12. /\ Less(last, last')
         /\ Made(id)' /\ Made(eid)'
    <2>1. last.ms \in Nat /\ last \in Id /\ last.ms <= now
      BY <1>7 DEF IdsOK, Id
    <2>2. Less(last, id)
      BY <1>8, <2>1 DEF Made
    <2>3. Less(last, eid)
      BY <1>8, <1>9, <2>1, <2>2, LessIsStrictTotalOrder
    <2> QED
      BY <1>1, <1>5, <1>7, <1>8, <1>9, <2>3 DEF Made
  <1>13. SameContext(row, conversations[c])
    <2>1. now \in Nat
      BY <1>7
    <2>2. row = conversations[c] \/ row = [conversations[c] EXCEPT !.last = now]
      BY <1>4 DEF Touched
    <2> QED
      BY <1>6, <2>1, <2>2 DEF SameContext, ConversationRow
  <1>14. /\ o.rows = Just(c, row) /\ o.rows[c] = row
         /\ o.put = {m} /\ o.events = {e}
         /\ o.result = [code |-> "MESSAGE_SENT", message |-> id]
    BY <1>4 DEF Outcome, Just
  <1>15. /\ m = [id |-> id, conv |-> c, sender |-> r.actor, at |-> now, read |-> Never,
                 cmd |-> r]
         /\ m.id = id /\ m.conv = c /\ m.at = now
    BY <1>4 DEF NewMessage
  <1>16. /\ e.type = "messaging.message.sent" /\ e.message = id /\ e.conv = c
         /\ e.id = eid /\ e.at = now
    BY <1>4 DEF MessageSent
  <1>17. SentPair(e, m)'
    BY <1>8, <1>9, <1>12, <1>15, <1>16 DEF SentPair
  <1>18. \A n \in In(c)' : Less(n.id, m.id)
    <2>1. \A n \in messages : Made(n.id)
      BY DEF IInv, TableInv, MessagesOK
    <2> QED
      BY <1>1, <1>8, <1>15, <2>1 DEF In, tables
  <1>19. Waiting(r, c, o)'
    <2>1. Exists(c)' /\ IsParticipant(c, r.actor)'
      BY <1>1, <1>6 DEF tables, Exists, IsParticipant
    <2>2. SameContext(o.rows[c], conversations[c])'
      BY <1>1, <1>13, <1>14 DEF tables, SameContext
    <2>3. o.rows = Just(c, o.rows[c])
      BY <1>14
    <2>4. m = [id |-> m.id, conv |-> c, sender |-> r.actor, at |-> m.at, read |-> Never,
               cmd |-> r]
      BY <1>15
    <2>5. o.result = [code |-> "MESSAGE_SENT", message |-> m.id]
      BY <1>14, <1>15
    <2>6. WroteMessage(r, c, o)'
      BY <1>1, <1>14, <1>17, <1>18, <2>1, <2>2, <2>3, <2>4, <2>5 DEF WroteMessage
    <2> QED
      BY <2>6 DEF Waiting
  <1>20. \A p, b : ~Inserting(w, p, b)'
    <2>1. tx'[w] = x
      BY <1>5 DEF IInv, ControlInv, TxOK
    <2>2. x.out = o /\ DOMAIN o.rows = {c}
      BY <1>14 DEF x, Just
    <2> QED
      BY <1>1, <1>6, <2>1, <2>2 DEF Inserting, tables, Exists
  <1>21. \A d \in o.events :
           /\ \A f \in SentEvents : Apart(d, f)
           /\ \A v \in Worker \ {w} : \A f \in SentBy(v) : Apart(d, f)
    <2>1. \A f \in SentEvents : Made(f.id)
      BY DEF IInv, TableInv, EventsOK, SentEvents
    <2>2. \A v \in Worker : \A f \in SentBy(v) : Made(f.id)
      BY SentByIsMade
    <2> QED
      BY <1>8, <1>14, <1>16, <2>1, <2>2 DEF Apart
  <1> QED
    BY <1>1, <1>5, <1>6, <1>11, <1>12, <1>19, <1>20, <1>21, WriteKeepsInvariant DEF x

LEMMA MarkReadKeepsInvariant ==
  ASSUME IInv, NEW w \in Worker, MarkRead(w)
  PROVE  IInv'
  <1> SUFFICES ASSUME NEW r, r = tx[w].req, NEW c, c = tx[w].conv
               PROVE  IInv'
    OBVIOUS
  <1>1. /\ tx[w].pc = "work" /\ Reads(r)
        /\ UNCHANGED <<tables, now, sent, answers>>
    BY DEF MarkRead, Reads
  <1>2. PICK anchor \in FromOther(c, r.actor), random \in Random :
          LET changed == Through(c, r.actor, anchor)
              eid == New(last, now, random)
          IN  /\ anchor.id = tx[w].anchor
              /\ last' = IF changed = {} THEN last ELSE eid
              /\ Wrote(w, c, Outcome(
                   Nothing, Stamped(changed, now),
                   IF changed = {} THEN {}
                   ELSE {ConversationRead(eid, c, r.actor, anchor.id)},
                   [code |-> "READ"]))
    BY DEF MarkRead
  <1>3. PICK changed, id : changed = Through(c, r.actor, anchor) /\ id = New(last, now, random)
    OBVIOUS
  <1>4. PICK e, o :
          /\ e = ConversationRead(id, c, r.actor, anchor.id)
          /\ o = Outcome(Nothing, Stamped(changed, now), IF changed = {} THEN {} ELSE {e},
                         [code |-> "READ"])
    OBVIOUS
  <1> DEFINE x == [pc |-> "commit", req |-> r, conv |-> c, out |-> o]
  <1>5. /\ last' = IF changed = {} THEN last ELSE id
        /\ tx' = [tx EXCEPT ![w] = x]
    BY <1>2, <1>3, <1>4 DEF Wrote
  <1>6. /\ r \in Request /\ c \in Conv /\ Exists(c) /\ IsParticipant(c, r.actor)
        /\ \A v \in Worker \ {w} : ~HoldsRow(v, c)
    BY <1>1, AtWork
  <1>7. Left > 0 /\ IdsOK /\ Left \in Int /\ now \in Nat /\ now > 0
    <2>1. IdsOK
      BY DEF IInv, ControlInv
    <2>2. Cardinality(Begun) \in Nat
      BY <2>1, FS_CardinalityType DEF IdsOK
    <2> QED
      BY <1>1, <2>1, <2>2, BudgetSpent, RandomAssumption DEF IdsOK, Left
  <1>8. /\ id \in Id /\ id.ms = now /\ \A i : Made(i) => Less(i, id)
        /\ Room(id.entropy) >= 2 * Left - 1
    BY <1>3, <1>7, NextIsAbove
  <1>9. x.pc = "commit"
    OBVIOUS
  <1> HIDE DEF x
  <1>10. IdsOK'
    <2>1. CASE changed = {}
      BY <1>1, <1>5, <1>9, <2>1, BudgetStays
    <2>2. CASE changed # {}
      <3>1. last' = id /\ Room(id.entropy) \in Nat
        BY <1>5, <1>8, <2>2, IncrementUsesRoom DEF Id
      <3>2. Room(last'.entropy) >= 2 * Left - 2
        BY <1>7, <1>8, <3>1
      <3> QED
        BY <1>1, <1>5, <1>8, <1>9, <3>1, <3>2, BudgetSpent
    <2> QED
      BY <2>1, <2>2
  <1>11. last' = last \/ Less(last, last')
    <2>1. Made(last)
      BY <1>7 DEF IdsOK, Made, Id
    <2> QED
      BY <1>5, <1>8, <2>1
  <1>12. changed # {} => Made(id)'
    BY <1>1, <1>5, <1>7, <1>8 DEF Made
  <1>13. /\ o.rows = Nothing /\ o.result = [code |-> "READ"]
         /\ o.put = Stamped(changed, now)
         /\ changed = {} => o.events = {}
         /\ changed # {} => o.events = {e}
    BY <1>4 DEF Outcome
  <1>14. /\ e.type = "messaging.conversation.read" /\ e.conv = c /\ e.actor = r.actor
         /\ e.message = anchor.id /\ e.id = id /\ e.at = now
    BY <1>4 DEF ConversationRead
  <1>15. \A d \in ReadEvents(c, r.actor)' : Less(d.id, e.id)
    <2>1. \A d \in events : Made(d.id)
      BY DEF IInv, TableInv, EventsOK
    <2> QED
      BY <1>1, <1>8, <1>14, <2>1 DEF ReadEvents, tables
  <1>16. Waiting(r, c, o)'
    <2>1. Exists(c)' /\ IsParticipant(c, r.actor)'
      BY <1>1, <1>6 DEF tables, Exists, IsParticipant
    <2>2. FromOther(c, r.actor)' = FromOther(c, r.actor)
      BY <1>1 DEF tables, FromOther, In
    <2>3. anchor \in FromOther(c, r.actor)' /\ Through(c, r.actor, anchor)' = changed
      BY <1>3, <2>2 DEF Through
    <2>4. now \in 1..now' /\ now' = now
      BY <1>1, <1>7
    <2>5. changed # {} =>
            /\ o.events = {e}
            /\ e.type = "messaging.conversation.read" /\ e.conv = c /\ e.actor = r.actor
            /\ e.message = anchor.id
            /\ Made(e.id)' /\ e.at = e.id.ms
            /\ \A d \in ReadEvents(c, r.actor)' : Less(d.id, e.id)
      BY <1>8, <1>12, <1>13, <1>14, <1>15
    <2>6. WroteReading(r, c, o)'
      BY <1>1, <1>13, <2>1, <2>3, <2>4, <2>5 DEF WroteReading
    <2> QED
      BY <2>6 DEF Waiting
  <1>17. \A p, b : ~Inserting(w, p, b)'
    <2>1. tx'[w] = x
      BY <1>5 DEF IInv, ControlInv, TxOK
    <2>2. x.out = o /\ DOMAIN o.rows = {}
      BY <1>13 DEF x, Nothing
    <2> QED
      BY <2>1, <2>2 DEF Inserting
  <1>18. ~Sends(r)
    BY <1>1, <1>6, Requests
  <1> QED
    BY <1>1, <1>5, <1>6, <1>10, <1>11, <1>16, <1>17, <1>18, WriteKeepsInvariant DEF x

-----------------------------------------------------------------------------
(* A transaction commits. *)

LEMMA Committed ==
  ASSUME IInv, NEW w \in Worker, NEW r, NEW c, NEW o,
         r = tx[w].req, c = tx[w].conv, o = tx[w].out, Commit(w)
  PROVE  /\ r \in Request /\ c \in Conv /\ Waiting(r, c, o)
         /\ \A v \in Worker \ {w} : ~HoldsRow(v, c)
         /\ conversations' = [d \in Conv |-> IF d \in DOMAIN o.rows THEN o.rows[d]
                                             ELSE conversations[d]]
         /\ messages' = {m \in messages : \A n \in o.put : n.id # m.id} \cup o.put
         /\ events' = events \cup o.events
         /\ answers' = answers \cup {[req |-> r, result |-> o.result]}
         /\ tx' = [tx EXCEPT ![w] = Idle] /\ tx'[w] = Idle
         /\ \A v \in Worker \ {w} : tx'[v] = tx[v]
         /\ UNCHANGED <<now, last, sent>>
         /\ \A i : Made(i)' <=> Made(i)
  <1>1. tx[w].pc = "commit" /\ Knows(tx[w]) /\ TxOK /\ LocksOK
    BY DEF IInv, ControlInv, TxOK, Commit
  <1>2. r \in Request /\ c \in Conv
    BY <1>1, Steps
  <1>3. Waiting(r, c, o)
    BY <1>1 DEF IInv, Writing, Committing
  <1>4. \A v \in Worker \ {w} : ~HoldsRow(v, c)
    BY <1>1 DEF LocksOK, HoldsRow
  <1>5. /\ conversations' = [d \in Conv |-> IF d \in DOMAIN o.rows THEN o.rows[d]
                                            ELSE conversations[d]]
        /\ messages' = {m \in messages : \A n \in o.put : n.id # m.id} \cup o.put
        /\ events' = events \cup o.events
    BY DEF Commit, Apply
  <1>6. /\ answers' = answers \cup {[req |-> r, result |-> o.result]}
        /\ tx' = [tx EXCEPT ![w] = Idle]
        /\ UNCHANGED <<now, last, sent>>
    BY DEF Commit
  <1>7. tx'[w] = Idle /\ \A v \in Worker \ {w} : tx'[v] = tx[v]
    BY <1>1, <1>6 DEF TxOK
  <1>8. \A i : Made(i)' <=> Made(i)
    BY <1>6 DEF Made
  <1> QED
    BY <1>2, <1>3, <1>4, <1>5, <1>6, <1>7, <1>8

(* Only the entry of the command itself is new in the ledger. *)
LEMMA LedgerGrows ==
  ASSUME IInv, NEW w \in Worker, NEW r, NEW o, r = tx[w].req, o = tx[w].out, Commit(w)
  PROVE  /\ ledger' = [k \in CommandId |-> ledger'[k]]
         /\ \A k \in CommandId :
              \/ ledger'[k] = ledger[k]
              \/ Keyed(r) /\ k = IdOf(r) /\ ledger'[k] = o.result
         /\ \A k \in CommandId : ledger[k] # NoResult => ledger'[k] = ledger[k]
         /\ Keyed(r) => ledger[IdOf(r)] = NoResult /\ ledger'[IdOf(r)] = o.result
  <1>1. /\ ledger = [k \in CommandId |-> ledger[k]]
        /\ Keyed(r) => ledger[IdOf(r)] = NoResult
        /\ ledger' = IF Keyed(r) THEN [ledger EXCEPT ![IdOf(r)] = o.result] ELSE ledger
    BY DEF IInv, ControlInv, RowsOK, Commit, Apply
  <1>2. Keyed(r) => IdOf(r) \in CommandId
    BY Requests, Committed
  <1>3. CASE Keyed(r)
    <2>1. ledger' = [ledger EXCEPT ![IdOf(r)] = o.result]
      BY <1>1, <1>3
    <2> QED
      BY <1>1, <1>2, <1>3, <2>1
  <1>4. CASE ~Keyed(r)
    <2>1. ledger' = ledger
      BY <1>1, <1>4
    <2> QED
      BY <1>1, <1>4, <2>1
  <1> QED
    BY <1>3, <1>4

(* What a transaction writes of conversations is at most its own. *)
LEMMA RowsWritten ==
  ASSUME NEW r, NEW c, NEW o, Waiting(r, c, o)
  PROVE  DOMAIN o.rows \subseteq {c}
  BY DEF Waiting, WroteOpening, WroteMessage, WroteReading, Nothing, Just

(* What is left of the invariant's control part when a commit has written  *)
(* its tables, given what it did to them.                                  *)
LEMMA CommitKeepsControl ==
  ASSUME IInv, NEW w \in Worker, NEW c, c = tx[w].conv, Commit(w), RowsOK',
         \A d \in Conv : Exists(d) =>
           /\ Exists(d)'
           /\ \A a : IsParticipant(d, a)' <=> IsParticipant(d, a),
         \A d \in Conv \ {c} : \A a :
           In(d)' = In(d) /\ ReadEvents(d, a)' = ReadEvents(d, a),
         \A v \in Worker \ {w} : \A r :
           Committing(v) /\ r = tx[v].req /\ Opens(r)
             => OfContext(r.product, r.actor)' = OfContext(r.product, r.actor)
  PROVE  ControlInv' /\ Writing'
  <1> SUFFICES ASSUME NEW r, NEW o, r = tx[w].req, o = tx[w].out
               PROVE  ControlInv' /\ Writing'
    OBVIOUS
  <1>1. /\ r \in Request /\ c \in Conv /\ Waiting(r, c, o)
        /\ \A v \in Worker \ {w} : ~HoldsRow(v, c)
        /\ conversations' = [d \in Conv |-> IF d \in DOMAIN o.rows THEN o.rows[d]
                                            ELSE conversations[d]]
        /\ tx' = [tx EXCEPT ![w] = Idle] /\ tx'[w] = Idle
        /\ \A v \in Worker \ {w} : tx'[v] = tx[v]
        /\ UNCHANGED <<now, last, sent>>
        /\ \A i : Made(i)' <=> Made(i)
    BY Committed
  <1>11. tx[w].pc = "commit"
    BY DEF Commit
  <1>2. DOMAIN o.rows \subseteq {c}
    BY <1>1, RowsWritten
  <1>3. TxOK /\ Found /\ LocksOK /\ KeysFresh /\ Writing
    BY DEF IInv, ControlInv
  <1>4. Knows(Idle) /\ Idle.pc = "idle"
    BY DEF Knows, Idle
  <1>5. TxOK'
    <2>1. tx' = [v \in Worker |-> tx'[v]]
      BY <1>1, <1>3 DEF TxOK
    <2>2. \A v \in Worker : Knows(tx'[v])
      BY <1>1, <1>3, <1>4 DEF TxOK
    <2> QED
      BY <2>1, <2>2 DEF TxOK
  <1>6. Found'
    <2> SUFFICES ASSUME NEW v \in Worker, NEW y, y = tx'[v]
                 PROVE  /\ y.pc \in {"key", "lock", "work"} /\ ~Opens(y.req) => Exists(y.conv)'
                        /\ y.pc = "work" => IsParticipant(y.conv, y.req.actor)'
      BY DEF Found, Exists, IsParticipant, Opens
    <2>1. CASE v = w
      BY <1>1, <1>4, <2>1
    <2>2. CASE v # w
      <3>1. y = tx[v] /\ Knows(y)
        BY <1>1, <1>3, <2>2 DEF TxOK
      <3>2. y.pc \in {"key", "lock", "work"} /\ ~Opens(y.req) => y.conv \in Conv
        BY <3>1, Steps
      <3>3. y.pc = "work" => ~Opens(y.req)
        BY <3>1, Steps
      <3> QED
        BY <1>3, <3>1, <3>2, <3>3 DEF Found
    <2> QED
      BY <2>1, <2>2
  <1>7. LocksOK'
    <2>1. \A v \in Worker \ {w} : \A p, b : Inserting(v, p, b)' => Inserting(v, p, b)
      <3> SUFFICES ASSUME NEW v \in Worker \ {w}, NEW p, NEW b, Inserting(v, p, b)'
                   PROVE  Inserting(v, p, b)
        OBVIOUS
      <3>1. tx'[v] = tx[v] /\ tx[v].pc = "commit"
        BY <1>1 DEF Inserting
      <3>2. PICK d \in DOMAIN tx[v].out.rows :
              ~Exists(d)' /\ tx[v].out.rows[d].product = p /\ tx[v].out.rows[d].buyer = b
        BY <3>1 DEF Inserting
      <3>3. tx[v].conv \in Conv
        BY <1>3, <3>1, Steps DEF TxOK
      <3>4. DOMAIN tx[v].out.rows \subseteq {tx[v].conv}
        <4> SUFFICES ASSUME NEW q, NEW e, NEW u, q = tx[v].req, e = tx[v].conv, u = tx[v].out
                     PROVE  DOMAIN u.rows \subseteq {e}
          OBVIOUS
        <4>1. Waiting(q, e, u)
          BY <1>3, <3>1 DEF Writing, Committing
        <4> QED
          BY <4>1, RowsWritten
      <3>5. ~Exists(d)
        BY <3>2, <3>3, <3>4
      <3> QED
        BY <3>1, <3>2, <3>5 DEF Inserting
    <2> QED
      BY <1>1, <2>1, IdleHoldsNothing, LocksStay
  <1>8. KeysFresh'
    <2> SUFFICES ASSUME NEW v \in Worker, NEW y, y = tx'[v],
                        y.pc \notin {"idle", "key"}, Keyed(y.req)
                 PROVE  ledger'[IdOf(y.req)] = NoResult
      BY DEF KeysFresh, Keyed, IdOf
    <2>1. v # w /\ y = tx[v] /\ Knows(y)
      BY <1>1, <1>3, <1>4 DEF TxOK
    <2>2. IdOf(y.req) \in CommandId
      BY <2>1, Steps, Requests
    <2>3. ledger[IdOf(y.req)] = NoResult
      BY <1>3, <2>1 DEF KeysFresh
    <2>4. ~(Keyed(r) /\ IdOf(y.req) = IdOf(r))
      <3>1. HoldsKey(v, LockId(IdOf(y.req)))
        BY <2>1 DEF HoldsKey
      <3>2. Keyed(r) => HoldsKey(w, LockId(IdOf(r)))
        BY <1>11 DEF HoldsKey
      <3> QED
        BY <1>3, <2>1, <3>1, <3>2 DEF LocksOK
    <2> QED
      BY <2>2, <2>3, <2>4, LedgerGrows
  <1>9. IdsOK'
    BY <1>1, <1>4, BudgetStays
  <1>10. Writing'
    <2> SUFFICES ASSUME NEW v \in Worker, NEW q, NEW d, NEW p, Committing(v)',
                        q = tx'[v].req, d = tx'[v].conv, p = tx'[v].out
                 PROVE  Waiting(q, d, p)'
      BY DEF Writing
    <2>1. v # w /\ tx'[v] = tx[v] /\ Committing(v)
      BY <1>1, <1>4 DEF Committing
    <2>2. Waiting(q, d, p)
      BY <1>3, <2>1 DEF Writing
    <2>3. d \in Conv \ {c}
      <3>1. d \in Conv
        BY <1>3, <2>1, Steps DEF TxOK, Committing
      <3>2. HoldsRow(v, d)
        BY <2>1 DEF HoldsRow, Committing
      <3> QED
        BY <1>1, <2>1, <3>1, <3>2
    <2>4. conversations'[d] = conversations[d]
      BY <1>1, <1>2, <2>3
    <2>5. now \in Nat /\ now' \in Nat /\ now <= now'
      BY <1>1 DEF IInv, ControlInv, IdsOK
    <2>6. Opens(q) => OfContext(q.product, q.actor)' = OfContext(q.product, q.actor)
      BY <2>1
    <2>7. In(d)' = In(d) /\ ReadEvents(d, q.actor)' = ReadEvents(d, q.actor)
      BY <2>3
    <2>8. \A i : Made(i) => Made(i)'
      BY <1>1
    <2> QED
      BY <2>2, <2>4, <2>5, <2>6, <2>7, <2>8, WaitingStays
  <1> QED
    BY <1>5, <1>6, <1>7, <1>8, <1>9, <1>10 DEF ControlInv

(* The ledger and the answers stay true and get a true entry each. *)
LEMMA CommitKeepsResults ==
  ASSUME IInv, NEW w \in Worker, NEW r, NEW o, r = tx[w].req, o = tx[w].out, Commit(w),
         \A p, b, result : ReadyFor(p, b, result) => ReadyFor(p, b, result)',
         \A a, result : SentFor(a, result) => SentFor(a, result)',
         Opens(r) => ReadyFor(r.product, r.actor, o.result)',
         Sends(r) => SentFor(r.actor, o.result)',
         Reads(r) => o.result = [code |-> "READ"]
  PROVE  LedgerTrue' /\ AnswersOK'
  <1>1. r \in Request /\ answers' = answers \cup {[req |-> r, result |-> o.result]}
    BY Committed
  <1>2. LedgerTrue'
    <2> SUFFICES ASSUME NEW q \in Request, NEW result, Keyed(q), result = ledger'[IdOf(q)],
                        result # NoResult
                 PROVE  /\ Opens(q) => ReadyFor(q.product, q.actor, result)'
                        /\ Sends(q) => SentFor(q.actor, result)'
      BY Zenon DEF LedgerTrue
    <2>1. IdOf(q) \in CommandId
      BY Requests
    <2>2. CASE result = ledger[IdOf(q)]
      BY <2>2 DEF IInv, ResultInv, LedgerTrue
    <2>3. CASE Keyed(r) /\ IdOf(q) = IdOf(r) /\ result = o.result
      BY <1>1, <2>3, SameCommand
    <2> QED
      BY <2>1, <2>2, <2>3, LedgerGrows
  <1>3. AnswersOK'
    <2> SUFFICES ASSUME NEW x \in answers'
                 PROVE  \/ ReadyFor(x.req.product, x.req.actor, x.result)'
                        \/ SentFor(x.req.actor, x.result)'
                        \/ x.result = [code |-> "READ"]
      BY DEF AnswersOK
    <2>1. CASE x \in answers
      BY <2>1 DEF IInv, ResultInv, AnswersOK
    <2>2. CASE x = [req |-> r, result |-> o.result]
      BY <1>1, <2>2, Requests
    <2> QED
      BY <1>1, <2>1, <2>2
  <1> QED
    BY <1>2, <1>3

(* The events of two messages never overlap: those of a commit are apart   *)
(* from the others by what is known of them while they wait.               *)
LEMMA PairsStay ==
  ASSUME IInv, NEW w \in Worker, Commit(w),
         SentEvents' \subseteq SentEvents \cup SentBy(w),
         \A d, e \in SentBy(w) : d = e
  PROVE  PairsApart'
  <1>1. PairsApart
    BY DEF IInv, TableInv
  <1>2. tx'[w] = Idle /\ \A v \in Worker \ {w} : tx'[v] = tx[v]
    <2> SUFFICES ASSUME NEW r, NEW c, NEW o, r = tx[w].req, c = tx[w].conv, o = tx[w].out
                 PROVE  tx'[w] = Idle /\ \A v \in Worker \ {w} : tx'[v] = tx[v]
      OBVIOUS
    <2> QED
      BY Committed
  <1>3. SentBy(w)' = {} /\ \A v \in Worker \ {w} : SentBy(v)' = SentBy(v)
    BY <1>2 DEF SentBy, Committing, Idle
  <1>4. \A d, e \in SentEvents' : d = e \/ Apart(d, e)
    BY <1>1 DEF PairsApart, Apart
  <1>5. \A v \in Worker : \A d \in SentBy(v)', e \in SentEvents' : Apart(d, e)
    BY <1>1, <1>3 DEF PairsApart
  <1>6. \A u, v \in Worker : u # v => \A d \in SentBy(u)', e \in SentBy(v)' : Apart(d, e)
    BY <1>1, <1>3 DEF PairsApart
  <1> QED
    BY <1>4, <1>5, <1>6 DEF PairsApart, Apart

(* A commit that brings no new message leaves the old ones their entries.  *)
LEMMA SentOnceStays ==
  ASSUME IInv, NEW w \in Worker, Commit(w), MessagesOK', MessagesOK,
         \A m \in messages' : \E n \in messages : n.id = m.id /\ n.cmd = m.cmd
  PROVE  SentOnce'
  <1>1. SentOnce
    BY DEF IInv, ResultInv
  <1> SUFFICES ASSUME NEW m \in messages', Keyed(m.cmd)
               PROVE  /\ ledger'[IdOf(m.cmd)] = [code |-> "MESSAGE_SENT", message |-> m.id]
                      /\ \A n \in messages' :
                           Keyed(n.cmd) /\ IdOf(n.cmd) = IdOf(m.cmd) => n = m
    BY DEF SentOnce
  <1>2. PICK k \in messages : k.id = m.id /\ k.cmd = m.cmd
    OBVIOUS
  <1>3. m.cmd \in Request
    BY DEF MessagesOK, Sendings
  <1>4. IdOf(m.cmd) \in CommandId
    BY <1>3, Requests
  <1>5. ledger[IdOf(m.cmd)] = [code |-> "MESSAGE_SENT", message |-> m.id]
    BY <1>1, <1>2 DEF SentOnce
  <1>6. ledger[IdOf(m.cmd)] # NoResult
    BY <1>5, RowShapes
  <1>7. ledger'[IdOf(m.cmd)] = ledger[IdOf(m.cmd)]
    BY <1>4, <1>6, LedgerGrows
  <1>8. ASSUME NEW n \in messages', Keyed(n.cmd), IdOf(n.cmd) = IdOf(m.cmd)
        PROVE  n = m
    <2>1. PICK l \in messages : l.id = n.id /\ l.cmd = n.cmd
      OBVIOUS
    <2>3. Keyed(k.cmd) /\ Keyed(l.cmd) /\ IdOf(l.cmd) = IdOf(k.cmd)
      BY <1>2, <1>8, <2>1
    <2>2. l = k
      BY <1>1, <2>3, Zenon DEF SentOnce
    <2> QED
      BY <1>2, <2>1, <2>2 DEF MessagesOK
  <1> QED
    BY <1>5, <1>7, <1>8

LEMMA NothingTold == Tells({}, {})
  BY DEF Tells, Newest

LEMMA CommitOpening ==
  ASSUME IInv, NEW w \in Worker, NEW r, NEW c, NEW o,
         r = tx[w].req, c = tx[w].conv, o = tx[w].out, Commit(w), WroteOpening(r, c, o)
  PROVE  IInv'
  <1>1. /\ r \in Request /\ c \in Conv
        /\ \A v \in Worker \ {w} : ~HoldsRow(v, c)
        /\ conversations' = [d \in Conv |-> IF d \in DOMAIN o.rows THEN o.rows[d]
                                            ELSE conversations[d]]
        /\ messages' = {m \in messages : \A n \in o.put : n.id # m.id} \cup o.put
        /\ events' = events \cup o.events
        /\ \A i : Made(i)' <=> Made(i)
    BY Committed
  <1>2. /\ Opens(r) /\ Askable(r) /\ o.put = {} /\ o.events = {}
        /\ o.result.code = "CONVERSATION_READY" /\ o.result.conv = c
        /\ \/ o.rows = Nothing /\ c \in OfContext(r.product, r.actor)
           \/ /\ o.rows = Just(c, Row(r.product, r.actor)) /\ ~Exists(c)
              /\ OfContext(r.product, r.actor) = {}
    BY DEF WroteOpening
  <1>3. messages' = messages /\ events' = events
    BY <1>1, <1>2
  <1>4. MessagesOK /\ EventsOK /\ ReadIsPrefix /\ ReadIsTold /\ RowsOK /\ LocksOK /\ Writing
    BY DEF IInv, TableInv, ControlInv
  <1>5. r.actor \in User /\ r.product \in Product /\ ~Sends(r) /\ ~Reads(r)
    BY <1>1, <1>2, Requests
  <1> DEFINE new == Row(r.product, r.actor)
  <1>6. /\ new \in ConversationRow /\ new # NoConversation
        /\ new.product = r.product /\ new.buyer = r.actor /\ new.seller # new.buyer
    <2>1. new \in ConversationRow
      BY <1>5, RowShapes
    <2>2. new.product = r.product /\ new.buyer = r.actor /\ new.seller = SellerOf(r.product)
      BY DEF Row
    <2> QED
      BY <1>2, <2>1, <2>2, RowShapes DEF Askable
  <1> HIDE DEF new
  <1>7. \/ /\ o.rows = Nothing /\ c \in OfContext(r.product, r.actor)
           /\ conversations' = conversations
        \/ /\ ~Exists(c) /\ OfContext(r.product, r.actor) = {}
           /\ o.rows = Just(c, new)
           /\ conversations' = [conversations EXCEPT ![c] = new]
    <2>1. CASE o.rows = Nothing /\ c \in OfContext(r.product, r.actor)
      BY <1>1, <1>4, <2>1 DEF Nothing, RowsOK
    <2>2. CASE /\ o.rows = Just(c, Row(r.product, r.actor)) /\ ~Exists(c)
               /\ OfContext(r.product, r.actor) = {}
      <3>1. DOMAIN o.rows = {c} /\ o.rows[c] = new
        BY <2>2 DEF Just, new
      <3> QED
        BY <1>1, <1>4, <2>2, <3>1 DEF RowsOK, new
    <2> QED
      BY <1>2, <2>1, <2>2
  <1>8. /\ \A d \in Conv : Exists(d) => conversations'[d] = conversations[d]
        /\ \A d \in Conv : Exists(d)' => Exists(d) \/ d = c
        /\ conversations'[c].product = r.product /\ conversations'[c].buyer = r.actor
        /\ Exists(c)'
    BY <1>1, <1>4, <1>6, <1>7 DEF Exists, RowsOK, OfContext
  <1>9. \A d \in Conv : Exists(d) =>
          Exists(d)' /\ \A a : IsParticipant(d, a)' <=> IsParticipant(d, a)
    BY <1>8 DEF Exists, IsParticipant
  <1>10. \A p, b : OfContext(p, b)' = OfContext(p, b)
                   \/ /\ p = r.product /\ b = r.actor
                      /\ OfContext(p, b) = {} /\ o.rows = Just(c, new) /\ ~Exists(c)
    <2>1. CASE conversations' = conversations
      BY <2>1 DEF OfContext, Exists
    <2>2. CASE /\ ~Exists(c) /\ OfContext(r.product, r.actor) = {}
               /\ o.rows = Just(c, new)
               /\ conversations' = [conversations EXCEPT ![c] = new]
      <3> SUFFICES ASSUME NEW p, NEW b, ~(p = r.product /\ b = r.actor)
                   PROVE  OfContext(p, b)' = OfContext(p, b)
        BY <2>2
      <3>1. conversations'[c] = new /\ \A d \in Conv \ {c} : conversations'[d] = conversations[d]
        BY <1>1, <1>4, <2>2 DEF RowsOK
      <3>2. c \notin OfContext(p, b) /\ c \notin OfContext(p, b)'
        BY <1>6, <2>2, <3>1 DEF OfContext, Exists
      <3>3. \A d \in Conv \ {c} : d \in OfContext(p, b)' <=> d \in OfContext(p, b)
        BY <3>1 DEF OfContext, Exists
      <3>4. OfContext(p, b) \subseteq Conv /\ OfContext(p, b)' \subseteq Conv
        BY DEF OfContext
      <3> QED
        BY <3>2, <3>3, <3>4
    <2> QED
      BY <1>7, <2>1, <2>2
  <1>11. RowsOK'
    <2>1. /\ conversations' \in [Conv -> {NoConversation} \cup ConversationRow]
          /\ \A d \in Conv : Exists(d)' => conversations'[d].seller # conversations'[d].buyer
      <3>1. CASE conversations' = conversations
        BY <1>4, <3>1 DEF RowsOK, Exists
      <3>2. CASE conversations' = [conversations EXCEPT ![c] = new]
        <4>1. conversations'[c] = new /\ \A d \in Conv \ {c} : conversations'[d] = conversations[d]
          BY <1>1, <1>4, <3>2 DEF RowsOK
        <4>2. conversations' \in [Conv -> {NoConversation} \cup ConversationRow]
          BY <1>4, <1>6, <3>2 DEF RowsOK
        <4> QED
          BY <1>4, <1>6, <4>1, <4>2 DEF RowsOK, Exists
      <3> QED
        BY <1>7, <3>1, <3>2
    <2>2. ledger' = [k \in CommandId |-> ledger'[k]]
      BY LedgerGrows
    <2>3. \A p \in Product, b \in User : \A d, e \in OfContext(p, b)' : d = e
      <3> SUFFICES ASSUME NEW p \in Product, NEW b \in User,
                          NEW d \in OfContext(p, b)', NEW e \in OfContext(p, b)'
                   PROVE  d = e
        OBVIOUS
      <3>1. CASE OfContext(p, b)' = OfContext(p, b)
        BY <1>4, <3>1 DEF RowsOK
      <3>2. CASE OfContext(p, b) = {} /\ ~Exists(c)
        <4>1. \A k \in OfContext(p, b)' : k = c
          <5> SUFFICES ASSUME NEW k \in OfContext(p, b)', k # c
                       PROVE  k \in OfContext(p, b)
            BY <3>2
          <5>1. k \in Conv /\ Exists(k)'
            BY DEF OfContext
          <5>2. Exists(k) /\ conversations'[k] = conversations[k]
            BY <1>8, <5>1
          <5> QED
            BY <5>1, <5>2 DEF OfContext
        <4> QED
          BY <4>1
      <3> QED
        BY <1>10, <3>1, <3>2
    <2> QED
      BY <2>1, <2>2, <2>3 DEF RowsOK
  <1>12. \A v \in Worker \ {w} : \A q :
           Committing(v) /\ q = tx[v].req /\ Opens(q)
             => OfContext(q.product, q.actor)' = OfContext(q.product, q.actor)
    <2> SUFFICES ASSUME NEW v \in Worker \ {w}, NEW q, NEW d, NEW u, Committing(v),
                        q = tx[v].req, d = tx[v].conv, u = tx[v].out, Opens(q),
                        q.product = r.product, q.actor = r.actor,
                        OfContext(r.product, r.actor) = {}, o.rows = Just(c, new), ~Exists(c)
                 PROVE  FALSE
      BY <1>10
    <2>1. q \in Request
      BY Steps DEF IInv, ControlInv, TxOK, Committing
    <2>2. WroteOpening(q, d, u)
      <3>1. Waiting(q, d, u)
        BY <1>4 DEF Writing
      <3> QED
        BY <2>1, <3>1, Requests DEF Waiting, WroteMessage, WroteReading
    <2>3. u.rows = Just(d, Row(q.product, q.actor)) /\ ~Exists(d)
      BY <2>2 DEF WroteOpening
    <2>4. Inserting(v, r.product, r.actor)
      BY <2>3 DEF Inserting, Committing, Just, Row
    <2>5. Inserting(w, r.product, r.actor)
      <3>1. tx[w].pc = "commit"
        BY DEF Commit
      <3>2. DOMAIN o.rows = {c} /\ o.rows[c] = new
        BY DEF Just
      <3> QED
        BY <1>6, <3>1, <3>2 DEF Inserting
    <2> QED
      BY <1>4, <2>4, <2>5 DEF LocksOK
  <1>13. ControlInv' /\ Writing'
    <2>1. \A d, a : In(d)' = In(d) /\ ReadEvents(d, a)' = ReadEvents(d, a)
      BY <1>3 DEF In, ReadEvents
    <2> QED
      BY <1>9, <1>11, <1>12, <2>1, CommitKeepsControl
  <1>14. MessagesOK' /\ EventsOK'
    <2>1. SentEvents' = SentEvents
      BY <1>3 DEF SentEvents
    <2>2. MessagesOK'
      BY <1>1, <1>3, <1>4, <1>9 DEF MessagesOK
    <2>3. EventsOK'
      BY <1>1, <1>3, <1>4, <1>9, <2>1 DEF EventsOK
    <2> QED
      BY <2>2, <2>3
  <1>15. PairsApart'
    <2>1. SentEvents' = SentEvents /\ SentBy(w) = {}
      BY <1>3, <1>5 DEF SentEvents, SentBy
    <2> QED
      BY <2>1, PairsStay
  <1>16. ReadIsPrefix' /\ ReadIsTold'
    <2>1. \A d, a : /\ FromOther(d, a)' = FromOther(d, a)
                    /\ ReadEvents(d, a)' = ReadEvents(d, a)
                    /\ ReadOf(d, a)' = ReadOf(d, a)
      BY <1>3 DEF FromOther, In, ReadEvents, ReadOf
    <2>2. \A d \in Conv : ~Exists(d) => \A a :
            FromOther(d, a) = {} /\ ReadEvents(d, a) = {} /\ ReadOf(d, a) = {}
      BY <1>4 DEF FromOther, In, ReadEvents, ReadOf, MessagesOK, EventsOK
    <2>3. ReadIsPrefix'
      BY <1>4, <1>9, <2>1, <2>2 DEF ReadIsPrefix
    <2>4. ReadIsTold'
      BY <1>4, <1>9, <2>1, <2>2, NothingTold DEF ReadIsTold
    <2> QED
      BY <2>3, <2>4
  <1>17. SentOnce'
    BY <1>3, <1>4, <1>14, SentOnceStays
  <1>18. LedgerTrue' /\ AnswersOK'
    <2>1. \A p, b, result : ReadyFor(p, b, result) => ReadyFor(p, b, result)'
      BY <1>10 DEF ReadyFor
    <2>2. \A a, result : SentFor(a, result) => SentFor(a, result)'
      BY <1>3 DEF SentFor
    <2>3. ReadyFor(r.product, r.actor, o.result)'
      <3>1. c \in OfContext(r.product, r.actor)'
        BY <1>1, <1>8 DEF OfContext
      <3>2. OfContext(r.product, r.actor)' = {c}
        BY <1>5, <1>11, <3>1 DEF RowsOK
      <3> QED
        BY <1>2, <3>2 DEF ReadyFor
    <2> QED
      BY <1>5, <2>1, <2>2, <2>3, CommitKeepsResults
  <1> QED
    BY <1>13, <1>14, <1>15, <1>16, <1>17, <1>18 DEF IInv, TableInv, ResultInv

(* Sending touches the row of a conversation, not what it is about. *)
LEMMA ContextsStay ==
  ASSUME RowsOK, NEW c \in Conv, NEW row, Exists(c), SameContext(row, conversations[c]),
         conversations' = [conversations EXCEPT ![c] = row],
         ledger' = [k \in CommandId |-> ledger'[k]]
  PROVE  /\ RowsOK'
         /\ \A p, b : OfContext(p, b)' = OfContext(p, b)
         /\ \A d \in Conv : Exists(d)' <=> Exists(d)
         /\ \A d \in Conv : Exists(d) => \A a : IsParticipant(d, a)' <=> IsParticipant(d, a)
         /\ \A p, b, result : ReadyFor(p, b, result)' <=> ReadyFor(p, b, result)
  <1>1. /\ conversations'[c] = row
        /\ \A d \in Conv \ {c} : conversations'[d] = conversations[d]
        /\ row \in ConversationRow
        /\ row.product = conversations[c].product /\ row.buyer = conversations[c].buyer
        /\ row.seller = conversations[c].seller
    BY DEF RowsOK, SameContext
  <1>2. row # NoConversation
    BY <1>1, RowShapes
  <1>3. \A d \in Conv : Exists(d)' <=> Exists(d)
    BY <1>1, <1>2 DEF Exists
  <1>4. \A d \in Conv : /\ conversations'[d].product = conversations[d].product
                        /\ conversations'[d].buyer = conversations[d].buyer
                        /\ conversations'[d].seller = conversations[d].seller
    BY <1>1
  <1>5. \A p, b : OfContext(p, b)' = OfContext(p, b)
    BY <1>3, <1>4 DEF OfContext
  <1>6. \A d \in Conv : Exists(d) => \A a : IsParticipant(d, a)' <=> IsParticipant(d, a)
    BY <1>4 DEF IsParticipant
  <1>7. RowsOK'
    <2>1. conversations' \in [Conv -> {NoConversation} \cup ConversationRow]
      BY <1>1 DEF RowsOK
    <2>2. \A d \in Conv : Exists(d)' => conversations'[d].seller # conversations'[d].buyer
      BY <1>3, <1>4 DEF RowsOK
    <2> QED
      BY <1>5, <2>1, <2>2 DEF RowsOK
  <1>8. \A p, b, result : ReadyFor(p, b, result)' <=> ReadyFor(p, b, result)
    BY <1>5 DEF ReadyFor
  <1> QED
    BY <1>3, <1>5, <1>6, <1>7, <1>8

(* A message that waits for its commit has an identifier of its own. *)
LEMMA FreshMessage ==
  ASSUME IInv, NEW w \in Worker, NEW r, NEW c, NEW o,
         r = tx[w].req, c = tx[w].conv, o = tx[w].out, Commit(w), WroteMessage(r, c, o),
         NEW m \in o.put
  PROVE  \A n \in messages : n.id # m.id
  <1>1. PICK e \in o.events : o.events = {e} /\ SentPair(e, m)
    BY DEF WroteMessage
  <1>2. e.message = m.id /\ Made(e.id) /\ Made(m.id) /\ Less(m.id, e.id)
    BY <1>1 DEF SentPair
  <1>3. e.id \in Id /\ m.id \in Id
    BY <1>2 DEF Made
  <1>4. EventsOK /\ PairsApart
    BY DEF IInv, TableInv
  <1>5. e \in SentBy(w)
    BY DEF SentBy, Committing, Commit, WroteMessage
  <1> SUFFICES ASSUME NEW n \in messages, n.id = m.id
               PROVE  FALSE
    OBVIOUS
  <1>6. PICK d \in SentEvents : d.message = m.id
    BY <1>4 DEF EventsOK
  <1>7. Apart(e, d)
    BY <1>4, <1>5 DEF PairsApart
  <1>8. Less(d.message, d.id) /\ d.id \in Id
    BY <1>4 DEF EventsOK, SentEvents, Made
  <1>9. CASE Less(e.id, d.message)
    BY <1>2, <1>3, <1>6, <1>9, LessIsStrictTotalOrder
  <1>10. CASE Less(d.id, e.message)
    BY <1>2, <1>3, <1>6, <1>8, <1>10, LessIsStrictTotalOrder
  <1> QED
    BY <1>7, <1>9, <1>10 DEF Apart

LEMMA CommitMessage ==
  ASSUME IInv, NEW w \in Worker, NEW r, NEW c, NEW o,
         r = tx[w].req, c = tx[w].conv, o = tx[w].out, Commit(w), WroteMessage(r, c, o)
  PROVE  IInv'
  <1>1. /\ r \in Request /\ c \in Conv
        /\ \A v \in Worker \ {w} : ~HoldsRow(v, c)
        /\ conversations' = [d \in Conv |-> IF d \in DOMAIN o.rows THEN o.rows[d]
                                            ELSE conversations[d]]
        /\ messages' = {k \in messages : \A n \in o.put : n.id # k.id} \cup o.put
        /\ events' = events \cup o.events
        /\ \A i : Made(i)' <=> Made(i)
    BY Committed
  <1>2. /\ Sends(r) /\ Exists(c) /\ IsParticipant(c, r.actor)
        /\ o.rows = Just(c, o.rows[c]) /\ SameContext(o.rows[c], conversations[c])
    BY DEF WroteMessage
  <1>3. PICK m \in o.put, e \in o.events :
          /\ o.put = {m} /\ o.events = {e}
          /\ m = [id |-> m.id, conv |-> c, sender |-> r.actor, at |-> m.at, read |-> Never,
                  cmd |-> r]
          /\ SentPair(e, m)
          /\ o.result = [code |-> "MESSAGE_SENT", message |-> m.id]
          /\ \A n \in In(c) : Less(n.id, m.id)
    BY DEF WroteMessage
  <1>4. /\ MessagesOK /\ EventsOK /\ PairsApart /\ ReadIsPrefix /\ ReadIsTold
        /\ RowsOK /\ SentOnce
    BY DEF IInv, TableInv, ControlInv, ResultInv
  <1>5. /\ m.conv = c /\ m.sender = r.actor /\ m.read = Never /\ m.cmd = r
        /\ e.type = "messaging.message.sent" /\ e.message = m.id /\ e.conv = c
        /\ Made(e.id) /\ Made(m.id) /\ Less(m.id, e.id)
        /\ e.at = e.id.ms /\ m.at = m.id.ms /\ e.at = m.at
    BY <1>3 DEF SentPair
  <1>6. e.id \in Id /\ m.id \in Id /\ m.at \in Nat
    BY <1>5 DEF Made, Id
  <1>7. r.actor \in User /\ ~Opens(r) /\ ~Reads(r) /\ r \in Sendings
    BY <1>1, <1>2, Requests DEF Sendings
  <1>8. SentBy(w) = {e}
    BY <1>2, <1>3 DEF SentBy, Committing, Commit
  <1>9. \A n \in messages : n.id # m.id
    BY FreshMessage
  <1>10. messages' = messages \cup {m} /\ events' = events \cup {e}
    BY <1>1, <1>3, <1>9
  <1>11. SentEvents' = SentEvents \cup {e}
    BY <1>5, <1>10 DEF SentEvents
  <1>12. conversations' = [conversations EXCEPT ![c] = o.rows[c]]
    <2>1. DOMAIN o.rows = {c}
      BY <1>2 DEF Just
    <2> QED
      BY <1>1, <1>4, <2>1 DEF RowsOK
  <1>13. /\ RowsOK'
         /\ \A p, b : OfContext(p, b)' = OfContext(p, b)
         /\ \A d \in Conv : Exists(d)' <=> Exists(d)
         /\ \A d \in Conv : Exists(d) => \A a : IsParticipant(d, a)' <=> IsParticipant(d, a)
         /\ \A p, b, result : ReadyFor(p, b, result)' <=> ReadyFor(p, b, result)
    <2>1. ledger' = [k \in CommandId |-> ledger'[k]]
      BY LedgerGrows
    <2>2. SameContext(o.rows[c], conversations[c])
      BY <1>2
    <2> QED
      BY <1>1, <1>2, <1>4, <1>12, <2>1, <2>2, ContextsStay
  <1>14. \A d, a : ReadEvents(d, a)' = ReadEvents(d, a)
    BY <1>5, <1>10 DEF ReadEvents
  <1>15. ControlInv' /\ Writing'
    <2>1. \A d \in Conv \ {c} : In(d)' = In(d)
      BY <1>5, <1>10 DEF In
    <2>2. \A d \in Conv : Exists(d) =>
            Exists(d)' /\ \A a : IsParticipant(d, a)' <=> IsParticipant(d, a)
      BY <1>13
    <2>3. \A v \in Worker \ {w} : \A q :
            Committing(v) /\ q = tx[v].req /\ Opens(q)
              => OfContext(q.product, q.actor)' = OfContext(q.product, q.actor)
      BY <1>13
    <2>4. \A d \in Conv \ {c} : \A a :
            In(d)' = In(d) /\ ReadEvents(d, a)' = ReadEvents(d, a)
      BY <1>14, <2>1
    <2> QED
      BY <1>13, <2>2, <2>3, <2>4, CommitKeepsControl
  <1>16. MessagesOK'
    <2>1. m \in [id : Id, conv : Conv, sender : User, at : Nat, read : Nat, cmd : Sendings]
      BY <1>1, <1>3, <1>6, <1>7 DEF Never
    <2>2. /\ m.cmd.actor = m.sender /\ Made(m.id)' /\ m.at = m.id.ms
          /\ Exists(m.conv)' /\ IsParticipant(m.conv, m.sender)'
      BY <1>1, <1>2, <1>5, <1>13
    <2>3. \A n \in messages :
            /\ n \in [id : Id, conv : Conv, sender : User, at : Nat, read : Nat, cmd : Sendings]
            /\ n.cmd.actor = n.sender /\ Made(n.id)' /\ n.at = n.id.ms
            /\ Exists(n.conv)' /\ IsParticipant(n.conv, n.sender)'
      BY <1>1, <1>4, <1>13 DEF MessagesOK
    <2>4. \A k, n \in messages' : k.id = n.id => k = n
      BY <1>4, <1>9, <1>10 DEF MessagesOK
    <2> QED
      BY <1>10, <2>1, <2>2, <2>3, <2>4 DEF MessagesOK
  <1>17. EventsOK'
    <2>1. \A d \in events' : Made(d.id)' /\ d.at = d.id.ms /\ d.conv \in Conv /\ Exists(d.conv)'
      BY <1>1, <1>2, <1>4, <1>5, <1>10, <1>13 DEF EventsOK
    <2>2. \A d \in SentEvents' : Made(d.message)' /\ d.message.ms = d.at /\ Less(d.message, d.id)
      BY <1>1, <1>4, <1>5, <1>11 DEF EventsOK
    <2>3. {d.message : d \in SentEvents'} = {n.id : n \in messages'}
      <3>1. {d.message : d \in SentEvents'} = {d.message : d \in SentEvents} \cup {m.id}
        BY <1>5, <1>11
      <3>2. {n.id : n \in messages'} = {n.id : n \in messages} \cup {m.id}
        BY <1>10
      <3> QED
        BY <1>4, <3>1, <3>2 DEF EventsOK
    <2> QED
      BY <2>1, <2>2, <2>3 DEF EventsOK
  <1>18. PairsApart'
    BY <1>8, <1>11, PairsStay
  <1>19. ReadIsPrefix'
    <2> SUFFICES ASSUME NEW d \in Conv, NEW a \in User, Exists(d)', IsParticipant(d, a)',
                        NEW k \in FromOther(d, a)', NEW n \in FromOther(d, a)',
                        k.read # Never, Before(n, k)
                 PROVE  n.read # Never
      BY DEF ReadIsPrefix, Before, Less
    <2>1. k \in messages /\ k \in FromOther(d, a)
      BY <1>5, <1>10 DEF FromOther, In
    <2>2. CASE n \in messages
      <3>1. n \in FromOther(d, a)
        BY <2>2 DEF FromOther, In
      <3> QED
        BY <1>4, <1>13, <2>1, <3>1 DEF ReadIsPrefix
    <2>3. CASE n = m
      <3>1. k \in In(c) /\ k.id \in Id /\ k.at = k.id.ms
        BY <1>4, <1>5, <2>1, <2>3 DEF FromOther, In, MessagesOK
      <3>2. Less(k.id, m.id) /\ Less(m.id, k.id)
        BY <1>3, <1>5, <1>6, <2>3, <3>1, Orders
      <3> QED
        BY <1>6, <3>1, <3>2, LessIsStrictTotalOrder
    <2> QED
      BY <1>10, <2>2, <2>3 DEF FromOther, In
  <1>20. ReadIsTold'
    <2>1. \A d, a : ReadOf(d, a)' = ReadOf(d, a)
      BY <1>5, <1>10 DEF ReadOf, FromOther, In
    <2> QED
      BY <1>4, <1>13, <1>14, <2>1 DEF ReadIsTold
  <1>21. SentOnce'
    <2>1. ASSUME NEW n \in messages, Keyed(n.cmd)
          PROVE  /\ ledger'[IdOf(n.cmd)] = [code |-> "MESSAGE_SENT", message |-> n.id]
                 /\ Keyed(r) => IdOf(r) # IdOf(n.cmd)
      <3>1. IdOf(n.cmd) \in CommandId
        BY <1>4, <2>1, Requests DEF MessagesOK, Sendings
      <3>2. ledger[IdOf(n.cmd)] = [code |-> "MESSAGE_SENT", message |-> n.id]
        BY <1>4, <2>1 DEF SentOnce
      <3>3. ledger[IdOf(n.cmd)] # NoResult
        BY <3>2, RowShapes
      <3> QED
        BY <3>1, <3>2, <3>3, LedgerGrows
    <2>2. Keyed(r) => ledger'[IdOf(r)] = [code |-> "MESSAGE_SENT", message |-> m.id]
      BY <1>3, LedgerGrows
    <2> SUFFICES ASSUME NEW k \in messages', Keyed(k.cmd)
                 PROVE  /\ ledger'[IdOf(k.cmd)] = [code |-> "MESSAGE_SENT", message |-> k.id]
                        /\ \A n \in messages' :
                             Keyed(n.cmd) /\ IdOf(n.cmd) = IdOf(k.cmd) => n = k
      BY DEF SentOnce
    <2>3. CASE k \in messages
      <3>1. \A n \in messages : Keyed(n.cmd) /\ IdOf(n.cmd) = IdOf(k.cmd) => n = k
        BY <1>4, <2>3, Zenon DEF SentOnce
      <3>2. Keyed(r) => IdOf(r) # IdOf(k.cmd)
        BY <2>1, <2>3
      <3> QED
        BY <1>5, <1>10, <2>1, <2>3, <3>1, <3>2
    <2>4. CASE k = m
      BY <1>5, <1>10, <2>1, <2>2, <2>4
    <2> QED
      BY <1>10, <2>3, <2>4
  <1>22. LedgerTrue' /\ AnswersOK'
    <2>1. \A a, result : SentFor(a, result) => SentFor(a, result)'
      BY <1>10 DEF SentFor
    <2>2. SentFor(r.actor, o.result)'
      BY <1>3, <1>5, <1>10 DEF SentFor
    <2>3. \A p, b, result : ReadyFor(p, b, result) => ReadyFor(p, b, result)'
      BY <1>13
    <2> QED
      BY <1>7, <2>1, <2>2, <2>3, CommitKeepsResults
  <1> QED
    BY <1>15, <1>16, <1>17, <1>18, <1>19, <1>20, <1>21, <1>22 DEF IInv, TableInv, ResultInv

LEMMA NewestIs ==
  ASSUME NEW S, NEW t \in S, \A n \in S : n.id \in Id /\ n.at = n.id.ms,
         \A n \in S : n = t \/ Less(n.id, t.id)
  PROVE  Newest(S) = {t}
  <1>1. \A n \in S : n = t \/ Before(n, t)
    BY Orders
  <1>2. \A n \in S : ~(n # t /\ Before(t, n))
    <2> SUFFICES ASSUME NEW n \in S, n # t, Before(t, n)
                 PROVE  FALSE
      OBVIOUS
    <2>1. Less(n.id, t.id) /\ Less(t.id, n.id)
      BY Orders
    <2> QED
      BY <2>1, LessIsStrictTotalOrder
  <1> QED
    BY <1>1, <1>2 DEF Newest

(* What is left of each row when some are marked read. *)
Kept(n, k) ==
  n.id = k.id /\ n.conv = k.conv /\ n.sender = k.sender /\ n.at = k.at /\ n.cmd = k.cmd
Marked(changed, at) ==
  /\ changed \subseteq messages
  /\ \A k \in changed :
       LET n == [k EXCEPT !.read = at] IN
       /\ n \in messages' /\ n.read = at /\ Kept(n, k)
       /\ n \in [id : Id, conv : Conv, sender : User, at : Nat, read : Nat, cmd : Sendings]
  /\ \A n \in messages' : \E k \in messages :
       /\ Kept(n, k)
       /\ \/ k \in changed /\ n = [k EXCEPT !.read = at] /\ n.read = at
          \/ k \notin changed /\ n = k
  /\ \A k \in messages : k \notin changed => k \in messages'

(* Marking read only sets read_at, and in every row through the anchor.    *)
LEMMA ReadMarks ==
  ASSUME IInv, NEW w \in Worker, NEW r, NEW c, NEW o,
         r = tx[w].req, c = tx[w].conv, o = tx[w].out, Commit(w),
         NEW anchor, NEW changed, changed = Through(c, r.actor, anchor),
         NEW at \in 1..now, o.put = Stamped(changed, at)
  PROVE  Marked(changed, at)
  <1>1. messages' = {k \in messages : \A n \in o.put : n.id # k.id} \cup o.put
    BY Committed
  <1>2. changed = Through(c, r.actor, anchor)
    OBVIOUS
  <1>3. o.put = Stamped(changed, at)
    OBVIOUS
  <1>4. MessagesOK /\ now \in Nat
    BY DEF IInv, TableInv, ControlInv, IdsOK
  <1>5. at \in Nat /\ at # Never
    BY <1>4 DEF Never
  <1>6. /\ changed \subseteq messages
         /\ \A k \in changed : /\ k.conv = c /\ k.sender # r.actor /\ k.read = Never
                               /\ k = anchor \/ Before(k, anchor)
    BY <1>2 DEF Through, FromOther, In
  <1>7. \A k \in messages : k.id \in Id /\ k.at = k.id.ms
    BY <1>4 DEF MessagesOK
  <1>8. \A k \in changed :
           LET n == [k EXCEPT !.read = at] IN
           /\ n \in messages' /\ n.read = at
           /\ n.id = k.id /\ n.conv = k.conv /\ n.sender = k.sender /\ n.at = k.at
           /\ n.cmd = k.cmd
           /\ n \in [id : Id, conv : Conv, sender : User, at : Nat, read : Nat, cmd : Sendings]
    <2> SUFFICES ASSUME NEW k \in changed, NEW n, n = [k EXCEPT !.read = at]
                 PROVE  /\ n \in messages' /\ n.read = at
                        /\ n.id = k.id /\ n.conv = k.conv /\ n.sender = k.sender /\ n.at = k.at
                        /\ n.cmd = k.cmd
                        /\ n \in [id : Id, conv : Conv, sender : User, at : Nat, read : Nat,
                                  cmd : Sendings]
      OBVIOUS
    <2>1. k \in [id : Id, conv : Conv, sender : User, at : Nat, read : Nat, cmd : Sendings]
      BY <1>4, <1>6 DEF MessagesOK
    <2>2. n \in Stamped(changed, at)
      BY DEF Stamped
    <2> QED
      BY <1>1, <1>3, <1>5, <2>1, <2>2
  <1>9. \A k \in messages : k \notin changed <=> \A n \in o.put : n.id # k.id
    <2> SUFFICES ASSUME NEW k \in messages
                 PROVE  k \in changed <=> \E n \in o.put : n.id = k.id
      OBVIOUS
    <2>1. ASSUME k \in changed PROVE \E n \in o.put : n.id = k.id
      <3>1. [k EXCEPT !.read = at] \in o.put
        BY <1>3, <2>1 DEF Stamped
      <3> QED
        BY <1>8, <2>1, <3>1
    <2>2. ASSUME NEW n \in o.put, n.id = k.id PROVE k \in changed
      <3>1. PICK j \in changed : n = [j EXCEPT !.read = at]
        BY <1>3 DEF Stamped
      <3>2. j.id = k.id
        BY <1>8, <2>2, <3>1
      <3> QED
        BY <1>4, <1>6, <3>2 DEF MessagesOK
    <2> QED
      BY <2>1, <2>2
  <1>10. \A n \in messages' : \E k \in messages :
           /\ n.id = k.id /\ n.conv = k.conv /\ n.sender = k.sender /\ n.at = k.at
           /\ n.cmd = k.cmd
           /\ \/ k \in changed /\ n = [k EXCEPT !.read = at] /\ n.read = at
              \/ k \notin changed /\ n = k
    <2> SUFFICES ASSUME NEW n \in messages'
                 PROVE  \E k \in messages :
                          /\ n.id = k.id /\ n.conv = k.conv /\ n.sender = k.sender /\ n.at = k.at
                          /\ n.cmd = k.cmd
                          /\ \/ k \in changed /\ n = [k EXCEPT !.read = at] /\ n.read = at
                             \/ k \notin changed /\ n = k
      OBVIOUS
    <2>1. CASE n \in o.put
      <3>1. PICK j \in changed : n = [j EXCEPT !.read = at]
        BY <1>3, <2>1 DEF Stamped
      <3> QED
        BY <1>6, <1>8, <3>1
    <2>2. CASE n \notin o.put
      BY <1>1, <1>9, <2>2
    <2> QED
      BY <2>1, <2>2
  <1>11. \A k \in messages : k \notin changed => k \in messages'
    BY <1>1, <1>9
  <1> QED
    BY <1>6, <1>8, <1>10, <1>11 DEF Marked, Kept

LEMMA CommitReading ==
  ASSUME IInv, NEW w \in Worker, NEW r, NEW c, NEW o,
         r = tx[w].req, c = tx[w].conv, o = tx[w].out, Commit(w), WroteReading(r, c, o)
  PROVE  IInv'
  <1>1. /\ r \in Request /\ c \in Conv
        /\ \A v \in Worker \ {w} : ~HoldsRow(v, c)
        /\ conversations' = [d \in Conv |-> IF d \in DOMAIN o.rows THEN o.rows[d]
                                            ELSE conversations[d]]
        /\ messages' = {k \in messages : \A n \in o.put : n.id # k.id} \cup o.put
        /\ events' = events \cup o.events
        /\ \A i : Made(i)' <=> Made(i)
    BY Committed
  <1>2. /\ Reads(r) /\ Exists(c) /\ IsParticipant(c, r.actor)
        /\ o.rows = Nothing /\ o.result = [code |-> "READ"]
    BY DEF WroteReading
  <1>3. PICK anchor \in FromOther(c, r.actor), at \in 1..now :
          LET changed == Through(c, r.actor, anchor) IN
          /\ o.put = Stamped(changed, at)
          /\ changed = {} => o.events = {}
          /\ changed # {} =>
               \E e \in o.events :
                 /\ o.events = {e}
                 /\ e.type = "messaging.conversation.read" /\ e.conv = c /\ e.actor = r.actor
                 /\ e.message = anchor.id
                 /\ Made(e.id) /\ e.at = e.id.ms
                 /\ \A d \in ReadEvents(c, r.actor) : Less(d.id, e.id)
    BY DEF WroteReading
  <1>4. PICK changed : changed = Through(c, r.actor, anchor)
    OBVIOUS
  <1>5. o.put = Stamped(changed, at) /\ (changed = {} => o.events = {})
    BY <1>3, <1>4
  <1>6. changed # {} =>
          \E e : /\ o.events = {e}
                 /\ e.type = "messaging.conversation.read" /\ e.conv = c /\ e.actor = r.actor
                 /\ e.message = anchor.id
                 /\ Made(e.id) /\ e.at = e.id.ms
                 /\ \A d \in ReadEvents(c, r.actor) : Less(d.id, e.id)
    BY <1>3, <1>4
  <1>7. /\ MessagesOK /\ EventsOK /\ PairsApart /\ ReadIsPrefix /\ ReadIsTold /\ RowsOK
        /\ now \in Nat
    BY DEF IInv, TableInv, ControlInv, IdsOK
  <1>8. r.actor \in User /\ ~Opens(r) /\ ~Sends(r)
    BY <1>1, <1>2, Requests
  <1>9. at \in Nat /\ at # Never
    BY <1>7 DEF Never
  <1>m. Marked(changed, at)
    BY <1>4, <1>5, ReadMarks
  <1>10. /\ changed \subseteq messages
         /\ \A k \in changed : /\ k.conv = c /\ k.sender # r.actor /\ k.read = Never
                               /\ k = anchor \/ Before(k, anchor)
    BY <1>4, <1>m DEF Marked, Through, FromOther, In
  <1>11. \A k \in messages : k.id \in Id /\ k.at = k.id.ms
    BY <1>7 DEF MessagesOK
  <1>12. \A k \in changed :
           LET n == [k EXCEPT !.read = at] IN
           /\ n \in messages' /\ n.read = at
           /\ n.id = k.id /\ n.conv = k.conv /\ n.sender = k.sender /\ n.at = k.at
           /\ n.cmd = k.cmd
           /\ n \in [id : Id, conv : Conv, sender : User, at : Nat, read : Nat, cmd : Sendings]
    BY <1>m DEF Marked, Kept
  <1>14. \A n \in messages' : \E k \in messages :
           /\ n.id = k.id /\ n.conv = k.conv /\ n.sender = k.sender /\ n.at = k.at
           /\ n.cmd = k.cmd
           /\ \/ k \in changed /\ n = [k EXCEPT !.read = at] /\ n.read = at
              \/ k \notin changed /\ n = k
    BY <1>m DEF Marked, Kept
  <1>15. \A k \in messages : k \notin changed => k \in messages'
    BY <1>m DEF Marked
  <1>16. conversations' = conversations
    BY <1>1, <1>2, <1>7 DEF Nothing, RowsOK
  <1>17. /\ \A d, a : (Exists(d)' <=> Exists(d)) /\ (IsParticipant(d, a)' <=> IsParticipant(d, a))
         /\ \A p, b : OfContext(p, b)' = OfContext(p, b)
         /\ \A p, b, result : ReadyFor(p, b, result)' <=> ReadyFor(p, b, result)
    BY <1>16 DEF Exists, IsParticipant, OfContext, ReadyFor
  <1>18. RowsOK'
    <2>1. ledger' = [k \in CommandId |-> ledger'[k]]
      BY LedgerGrows
    <2> QED
      BY <1>7, <1>16, <1>17, <2>1 DEF RowsOK
  <1>19. \A d, a : d # c \/ a # r.actor => ReadEvents(d, a)' = ReadEvents(d, a)
    BY <1>1, <1>5, <1>6 DEF ReadEvents
  <1>20. SentEvents' = SentEvents
    BY <1>1, <1>5, <1>6 DEF SentEvents
  <1>21. \A d : d # c => In(d)' = In(d)
    BY <1>10, <1>14, <1>15 DEF In
  <1>22. \A d \in Conv, a \in User :
           Exists(d) /\ IsParticipant(d, a) /\ (d # c \/ a # r.actor)
             => FromOther(d, a)' = FromOther(d, a)
    <2> SUFFICES ASSUME NEW a \in User, IsParticipant(c, a), a # r.actor
                 PROVE  FromOther(c, a)' = FromOther(c, a)
      BY <1>21 DEF FromOther
    <2>1. \A k \in changed : k.sender = a
      BY <1>2, <1>7, <1>10 DEF MessagesOK, IsParticipant
    <2> QED
      BY <1>14, <1>15, <2>1 DEF FromOther, In
  <1>23. ControlInv' /\ Writing'
    <2>1. \A d \in Conv : Exists(d) =>
            Exists(d)' /\ \A a : IsParticipant(d, a)' <=> IsParticipant(d, a)
      BY <1>17
    <2>2. \A v \in Worker \ {w} : \A q :
            Committing(v) /\ q = tx[v].req /\ Opens(q)
              => OfContext(q.product, q.actor)' = OfContext(q.product, q.actor)
      BY <1>17
    <2>3. \A d \in Conv \ {c} : \A a :
            In(d)' = In(d) /\ ReadEvents(d, a)' = ReadEvents(d, a)
      BY <1>19, <1>21
    <2> QED
      BY <1>18, <2>1, <2>2, <2>3, CommitKeepsControl
  <1>24. MessagesOK'
    <2>1. ASSUME NEW n \in messages'
          PROVE  /\ n \in [id : Id, conv : Conv, sender : User, at : Nat, read : Nat,
                           cmd : Sendings]
                 /\ n.cmd.actor = n.sender /\ Made(n.id)' /\ n.at = n.id.ms
                 /\ Exists(n.conv)' /\ IsParticipant(n.conv, n.sender)'
      BY <1>1, <1>7, <1>12, <1>14, <1>17 DEF MessagesOK
    <2>2. \A m, n \in messages' : m.id = n.id => m = n
      <3> SUFFICES ASSUME NEW m \in messages', NEW n \in messages', m.id = n.id
                   PROVE  m = n
        OBVIOUS
      <3>1. PICK k \in messages :
              /\ m.id = k.id
              /\ \/ k \in changed /\ m = [k EXCEPT !.read = at]
                 \/ k \notin changed /\ m = k
        BY <1>14
      <3>2. PICK l \in messages :
              /\ n.id = l.id
              /\ \/ l \in changed /\ n = [l EXCEPT !.read = at]
                 \/ l \notin changed /\ n = l
        BY <1>14
      <3>3. k = l
        BY <1>7, <3>1, <3>2 DEF MessagesOK
      <3> QED
        BY <3>1, <3>2, <3>3
    <2> QED
      BY <2>1, <2>2 DEF MessagesOK
  <1>25. EventsOK'
    <2>1. \A d \in events' : Made(d.id)' /\ d.at = d.id.ms /\ d.conv \in Conv /\ Exists(d.conv)'
      BY <1>1, <1>2, <1>5, <1>6, <1>7, <1>17 DEF EventsOK
    <2>2. \A d \in SentEvents' : Made(d.message)' /\ d.message.ms = d.at /\ Less(d.message, d.id)
      BY <1>1, <1>7, <1>20 DEF EventsOK
    <2>3. {n.id : n \in messages'} = {k.id : k \in messages}
      <3>1. \A k \in messages : \E n \in messages' : n.id = k.id
        BY <1>12, <1>15
      <3> QED
        BY <1>14, <3>1
    <2> QED
      BY <1>7, <1>20, <2>1, <2>2, <2>3 DEF EventsOK
  <1>26. PairsApart'
    <2>1. SentBy(w) = {}
      BY <1>8 DEF SentBy
    <2> QED
      BY <1>20, <2>1, PairsStay
  <1>27. ReadIsPrefix'
    <2> SUFFICES ASSUME NEW d \in Conv, NEW a \in User, Exists(d)', IsParticipant(d, a)',
                        NEW m \in FromOther(d, a)', NEW n \in FromOther(d, a)',
                        m.read # Never, Before(n, m), n.read = Never
                 PROVE  FALSE
      BY DEF ReadIsPrefix, Before, Less
    <2>1. CASE d # c \/ a # r.actor
      BY <1>7, <1>17, <1>22, <2>1 DEF ReadIsPrefix
    <2>2. CASE d = c /\ a = r.actor
      <3>1. m \in messages' /\ n \in messages'
        BY DEF FromOther, In
      <3>2. PICK k \in messages :
              /\ m.id = k.id /\ m.conv = k.conv /\ m.sender = k.sender /\ m.at = k.at
              /\ k \in changed \/ (k \notin changed /\ m = k)
        BY <1>14, <3>1
      <3>3. n \in messages /\ n \notin changed
        BY <1>9, <1>14, <3>1
      <3>4. k \in FromOther(c, r.actor) /\ n \in FromOther(c, r.actor)
        BY <2>2, <3>2, <3>3 DEF FromOther, In
      <3>5. Before(n, k)
        BY <3>2 DEF Before
      <3>6. ~(n = anchor \/ Before(n, anchor))
        BY <1>4, <3>3, <3>4 DEF Through
      <3>7. CASE k \in changed
        <4>1. k = anchor \/ Before(k, anchor)
          BY <1>10, <3>7
        <4>2. anchor \in messages
          BY DEF FromOther, In
        <4>3. Before(k, anchor) => Before(n, anchor)
          <5>1. /\ n.id \in Id /\ k.id \in Id /\ anchor.id \in Id
                /\ n.at = n.id.ms /\ k.at = k.id.ms /\ anchor.at = anchor.id.ms
            BY <1>11, <3>3, <4>2
          <5>2. /\ Before(n, k) <=> Less(n.id, k.id)
                /\ Before(k, anchor) <=> Less(k.id, anchor.id)
                /\ Before(n, anchor) <=> Less(n.id, anchor.id)
            BY <5>1, Orders
          <5> QED
            BY <3>5, <5>1, <5>2, LessIsStrictTotalOrder
        <4> QED
          BY <3>5, <3>6, <4>1, <4>3
      <3>8. CASE k \notin changed
        BY <1>2, <1>7, <2>2, <3>2, <3>4, <3>5, <3>8 DEF ReadIsPrefix
      <3> QED
        BY <3>7, <3>8
    <2> QED
      BY <2>1, <2>2
  <1>28. ReadIsTold'
    <2>1. \A d \in Conv, a \in User :
            Exists(d) /\ IsParticipant(d, a) /\ (d # c \/ a # r.actor)
              => Tells(ReadEvents(d, a), ReadOf(d, a))'
      <3>1. \A d \in Conv, a \in User :
              Exists(d) /\ IsParticipant(d, a) /\ (d # c \/ a # r.actor)
                => ReadOf(d, a)' = ReadOf(d, a)
        BY <1>22 DEF ReadOf
      <3> QED
        BY <1>7, <1>19, <3>1 DEF ReadIsTold
    <2>2. Tells(ReadEvents(c, r.actor), ReadOf(c, r.actor))'
      <3>1. CASE changed = {}
        <4>1. messages' = messages /\ events' = events
          BY <1>1, <1>5, <3>1 DEF Stamped
        <4>2. /\ ReadEvents(c, r.actor)' = ReadEvents(c, r.actor)
              /\ ReadOf(c, r.actor)' = ReadOf(c, r.actor)
          BY <4>1 DEF ReadEvents, ReadOf, FromOther, In
        <4> QED
          BY <1>1, <1>2, <1>7, <1>8, <4>2 DEF ReadIsTold
      <3>2. CASE changed # {}
        <4>1. PICK e : /\ o.events = {e}
                       /\ e.type = "messaging.conversation.read" /\ e.conv = c
                       /\ e.actor = r.actor /\ e.message = anchor.id
                       /\ Made(e.id) /\ e.at = e.id.ms
                       /\ \A d \in ReadEvents(c, r.actor) : Less(d.id, e.id)
          BY <1>6, <3>2
        <4>2. anchor \in messages /\ anchor \in changed
          <5>1. anchor \in messages
            BY DEF FromOther, In
          <5>2. PICK k \in changed : TRUE
            BY <3>2
          <5>3. k \in FromOther(c, r.actor)
            BY <1>4 DEF Through
          <5>4. anchor.read = Never
            BY <1>1, <1>2, <1>7, <1>8, <1>10, <5>3 DEF ReadIsPrefix
          <5> QED
            BY <1>4, <5>1, <5>4 DEF Through
        <4>3. PICK t : t = [anchor EXCEPT !.read = at]
          OBVIOUS
        <4>4. /\ t \in messages' /\ t.read = at /\ t.id = anchor.id /\ t.conv = c
              /\ t.sender # r.actor
          BY <1>10, <1>12, <4>2, <4>3
        <4>5. t \in ReadOf(c, r.actor)'
          BY <1>9, <4>4 DEF ReadOf, FromOther, In
        <4>6. \A n \in ReadOf(c, r.actor)' : n.id \in Id /\ n.at = n.id.ms
          BY <1>11, <1>14 DEF ReadOf, FromOther, In
        <4>7. \A n \in ReadOf(c, r.actor)' : n = t \/ Less(n.id, t.id)
          <5> SUFFICES ASSUME NEW n \in ReadOf(c, r.actor)'
                       PROVE  n = t \/ Less(n.id, t.id)
            OBVIOUS
          <5>1. n \in messages' /\ n.conv = c /\ n.sender # r.actor /\ n.read # Never
            BY DEF ReadOf, FromOther, In
          <5>2. PICK k \in messages :
                  /\ n.id = k.id /\ n.conv = k.conv /\ n.sender = k.sender
                  /\ \/ k \in changed /\ n = [k EXCEPT !.read = at]
                     \/ k \notin changed /\ n = k
            BY <1>14, <5>1
          <5>3. k.id \in Id /\ k.at = k.id.ms /\ anchor.id \in Id /\ anchor.at = anchor.id.ms
            BY <1>11, <4>2
          <5>4. CASE k \in changed
            <6>1. k = anchor \/ Less(k.id, anchor.id)
              BY <1>10, <5>3, <5>4, Orders
            <6> QED
              BY <4>3, <4>4, <5>2, <5>4, <6>1
          <5>5. CASE k \notin changed
            <6>1. n = k /\ k \in FromOther(c, r.actor) /\ k # anchor
              BY <4>2, <5>1, <5>2, <5>5 DEF FromOther, In
            <6>2. anchor.read = Never
              BY <1>10, <4>2
            <6>3. ~Before(anchor, k)
              BY <1>1, <1>2, <1>7, <1>8, <5>1, <6>1, <6>2 DEF ReadIsPrefix
            <6>4. k.id # anchor.id
              BY <1>7, <4>2, <6>1 DEF MessagesOK
            <6>5. Less(k.id, anchor.id)
              BY <5>3, <6>3, <6>4, Orders, LessIsStrictTotalOrder
            <6> QED
              BY <4>4, <6>1, <6>5
          <5> QED
            BY <5>4, <5>5
        <4>8. Newest(ReadOf(c, r.actor)') = {t}
          BY <4>5, <4>6, <4>7, NewestIs
        <4>9. ReadEvents(c, r.actor)' = ReadEvents(c, r.actor) \cup {e}
          BY <1>1, <4>1 DEF ReadEvents
        <4>10. \A d \in ReadEvents(c, r.actor)' : d.id \in Id /\ d.at = d.id.ms
          BY <1>7, <4>1, <4>9 DEF EventsOK, ReadEvents, Made
        <4>11. Newest(ReadEvents(c, r.actor)') = {e}
          BY <4>1, <4>9, <4>10, NewestIs
        <4> QED
          BY <4>1, <4>4, <4>8, <4>11 DEF Tells
      <3> QED
        BY <3>1, <3>2
    <2> QED
      BY <1>17, <2>1, <2>2 DEF ReadIsTold
  <1>29. SentOnce'
    BY <1>7, <1>14, <1>24, SentOnceStays
  <1>30. LedgerTrue' /\ AnswersOK'
    <2>1. \A a, result : SentFor(a, result) => SentFor(a, result)'
      BY <1>12, <1>15 DEF SentFor
    <2>2. \A p, b, result : ReadyFor(p, b, result) => ReadyFor(p, b, result)'
      BY <1>17
    <2> QED
      BY <1>2, <1>8, <2>1, <2>2, CommitKeepsResults
  <1> QED
    BY <1>23, <1>24, <1>25, <1>26, <1>27, <1>28, <1>29, <1>30 DEF IInv, TableInv, ResultInv

LEMMA CommitKeepsInvariant ==
  ASSUME IInv, NEW w \in Worker, Commit(w)
  PROVE  IInv'
  <1> SUFFICES ASSUME NEW r, NEW c, NEW o, r = tx[w].req, c = tx[w].conv, o = tx[w].out
               PROVE  IInv'
    OBVIOUS
  <1>1. Waiting(r, c, o)
    BY Committed
  <1> QED
    BY <1>1, CommitOpening, CommitMessage, CommitReading DEF Waiting

-----------------------------------------------------------------------------
(* The theorems. *)

(* Pages are read without a trace in the tables. *)
LEMMA Unchanged ==
  ASSUME IInv, UNCHANGED <<tables, tx, now, last, sent, answers>>
  PROVE  IInv'
  <1>1. UNCHANGED <<conversations, messages, ledger, events>>
    BY DEF tables
  <1>2. now \in Nat /\ now' \in Nat /\ now <= now' /\ \A i : Made(i) => Made(i)'
    BY DEF IInv, ControlInv, IdsOK, Made
  <1>3. \A w \in Worker : Committing(w)' => tx'[w] = tx[w]
    OBVIOUS
  <1>4. Writing' /\ TableInv' /\ RowsOK' /\ LedgerTrue' /\ SentOnce'
    BY <1>2, <1>3, QuietStep
  <1>5. AnswersOK'
    BY AnswersStay
  <1>6. TxOK'
    BY DEF IInv, ControlInv, TxOK
  <1>7. Found' /\ KeysFresh'
    BY <1>1 DEF IInv, ControlInv, Found, KeysFresh, Exists, IsParticipant
  <1>8. LocksOK'
    BY <1>1 DEF IInv, ControlInv, LocksOK, HoldsKey, HoldsRow, Inserting, Exists
  <1>9. IdsOK'
    BY DEF IInv, ControlInv, IdsOK, Begun, Left
  <1> QED
    BY <1>4, <1>5, <1>6, <1>7, <1>8, <1>9 DEF IInv, ControlInv, ResultInv

LEMMA Initially ==
  ASSUME Init
  PROVE  IInv
  <1>1. tx = [w \in Worker |-> Idle] /\ \A w \in Worker : tx[w] = Idle
    BY DEF Init
  <1>2. \A c \in Conv : ~Exists(c)
    BY DEF Init, Exists
  <1>3. \A w \in Worker : tx[w].pc = "idle"
    BY <1>1 DEF Idle
  <1>4. TxOK
    <2>1. Knows(Idle)
      BY DEF Knows, Idle
    <2> QED
      BY <1>1, <2>1 DEF TxOK
  <1>5. RowsOK /\ \A p, b : OfContext(p, b) = {}
    <2>1. \A p, b : OfContext(p, b) = {}
      BY <1>2 DEF OfContext
    <2> QED
      BY <1>2, <2>1 DEF Init, RowsOK
  <1>6. Found /\ KeysFresh /\ Writing
    BY <1>3 DEF Found, KeysFresh, Writing, Committing
  <1>7. LocksOK
    BY <1>3 DEF LocksOK, HoldsKey, HoldsRow, Inserting
  <1>8. IdsOK
    <2>1. Begun = {}
      BY <1>3 DEF Begun
    <2>2. IsFiniteSet(Begun) /\ Cardinality(Begun) = 0
      BY <2>1, FS_EmptySet
    <2>3. NewGenerator \in Id /\ NewGenerator.ms = 0
      BY EntropyAssumption DEF NewGenerator, Id, Entropy
    <2>4. MaxSends \in Nat
      BY RandomAssumption
    <2> QED
      BY <2>2, <2>3, <2>4 DEF Init, IdsOK
  <1>9. messages = {} /\ events = {} /\ answers = {} /\ SentEvents = {}
    BY DEF Init, SentEvents
  <1>10. \A w \in Worker : SentBy(w) = {}
    BY <1>3 DEF SentBy, Committing
  <1>11. MessagesOK /\ EventsOK /\ PairsApart
    BY <1>9, <1>10 DEF MessagesOK, EventsOK, PairsApart
  <1>12. ReadIsPrefix /\ ReadIsTold
    BY <1>2 DEF ReadIsPrefix, ReadIsTold
  <1>13. LedgerTrue
    <2>1. \A r \in Request : Keyed(r) => ledger[IdOf(r)] = NoResult
      BY Requests DEF Init
    <2> QED
      BY <2>1 DEF LedgerTrue
  <1>14. AnswersOK /\ SentOnce
    BY <1>9 DEF AnswersOK, SentOnce
  <1> QED
    BY <1>4, <1>5, <1>6, <1>7, <1>8, <1>11, <1>12, <1>13, <1>14
       DEF IInv, ControlInv, TableInv, ResultInv

LEMMA Invariance == Spec => []IInv
  <1>1. ASSUME IInv, [Next]_vars
        PROVE  IInv'
    <2>1. CASE UNCHANGED vars
      <3>1. /\ UNCHANGED <<tables, tx, now, last, sent, answers>>
            /\ UNCHANGED <<conversations, messages, ledger, events>>
        BY <2>1 DEF vars, tables
      <3> QED
        BY <1>1, <3>1, Unchanged
    <2>2. CASE (\E c \in Conv, a \in User : FirstPage(c, a)) \/ NextPage
      <3>1. UNCHANGED <<tables, tx, now, last, sent, answers>>
        BY <2>2 DEF FirstPage, NextPage
      <3> QED
        BY <1>1, <3>1, Unchanged
    <2>3. CASE Tick \/ Restart
      BY <1>1, <2>3, TimeKeepsInvariant
    <2>4. ASSUME NEW w \in Worker, NEW r \in Request, Begin(w, r)
          PROVE  IInv'
      BY <1>1, <2>4, BeginKeepsInvariant
    <2>5. ASSUME NEW w \in Worker, Fail(w) \/ Refuse(w)
          PROVE  IInv'
      BY <1>1, <2>5, RollBackKeepsInvariant DEF Fail, Refuse
    <2>6. ASSUME NEW w \in Worker, Step(w), ~Refuse(w)
          PROVE  IInv'
      BY <1>1, <2>6, ReplayKeepsInvariant, MissKeepsInvariant, AnswerKeepsInvariant,
         InsertKeepsInvariant, LockKeepsInvariant, SendKeepsInvariant, MarkReadKeepsInvariant,
         CommitKeepsInvariant DEF Step
    <2> QED
      BY <1>1, <2>1, <2>2, <2>3, <2>4, <2>5, <2>6 DEF Next
  <1> QED
    BY <1>1, Initially, PTL DEF Spec

(* Every answer a client was given stays true: the conversation it names   *)
(* is the only one of the buyer about the product, the message it names is *)
(* there, whatever raced, failed, or was sent again.                       *)
THEOREM AnswersStayTrue == Spec => []AnswersAreTrue
  <1>1. IInv => AnswersAreTrue
    <2> SUFFICES ASSUME IInv PROVE AnswersAreTrue
      OBVIOUS
    <2>1. ASSUME NEW p \in Product, NEW b \in User
          PROVE  Cardinality(OfContext(p, b)) <= 1
      <3>1. \A c, d \in OfContext(p, b) : c = d
        BY DEF IInv, ControlInv, RowsOK
      <3>2. CASE OfContext(p, b) = {}
        <4>1. Cardinality(OfContext(p, b)) = 0
          BY <3>2, FS_EmptySet
        <4> QED
          BY <4>1
      <3>3. CASE OfContext(p, b) # {}
        <4>1. PICK c : OfContext(p, b) = {c}
          BY <3>1, <3>3
        <4>2. Cardinality({c}) = 1
          BY FS_Singleton
        <4> QED
          BY <4>1, <4>2
      <3> QED
        BY <3>2, <3>3
    <2>2. AnswersOK
      BY DEF IInv, ResultInv
    <2> QED
      BY <2>1, <2>2 DEF AnswersAreTrue, AnswersOK, ReadyFor, SentFor
  <1> QED
    BY <1>1, Invariance, PTL

(* A keyed message makes one row, however often it is sent, and whatever   *)
(* fails on the way; its command id is taken for good.                     *)
THEOREM KeyedMessagesSentOnce == Spec => []SentOnce
  <1>1. IInv => SentOnce
    BY DEF IInv, ResultInv
  <1> QED
    BY <1>1, Invariance, PTL

(* The outbox, read by (occurred_at, event_id), tells all messages in the  *)
(* order of the pages, and how far each side has read.                     *)
THEOREM EventsTell == Spec => []EventsTellMessages
  <1>1. IInv => EventsTellMessages
    <2> SUFFICES ASSUME IInv PROVE EventsTellMessages
      OBVIOUS
    <2>1. MessagesOK /\ EventsOK /\ PairsApart /\ ReadIsTold
      BY DEF IInv, TableInv
    <2>2. {e.message : e \in SentEvents} = {m.id : m \in messages}
      BY <2>1 DEF EventsOK
    <2>3. ASSUME NEW d \in SentEvents, NEW e \in SentEvents, d # e,
                 NEW m \in messages, NEW n \in messages, m.id = d.message, n.id = e.message
          PROVE  Before(m, n) <=> Before(d, e)
      <3>1. /\ m.id \in Id /\ n.id \in Id /\ d.id \in Id /\ e.id \in Id
            /\ m.at = m.id.ms /\ n.at = n.id.ms /\ d.at = d.id.ms /\ e.at = e.id.ms
        BY <2>1 DEF MessagesOK, EventsOK, SentEvents, Made
      <3>2. /\ Before(m, n) <=> Less(m.id, n.id)
            /\ Before(d, e) <=> Less(d.id, e.id)
        BY <3>1, Orders
      <3>3. Less(m.id, d.id) /\ Less(n.id, e.id)
        BY <2>1, <2>3 DEF EventsOK
      <3>4. CASE Less(d.id, n.id)
        BY <3>1, <3>2, <3>3, <3>4, LessIsStrictTotalOrder
      <3>5. CASE Less(e.id, m.id)
        <4>1. Less(n.id, m.id) /\ Less(e.id, d.id)
          BY <3>1, <3>3, <3>5, LessIsStrictTotalOrder
        <4>2. ~Less(m.id, n.id) /\ ~Less(d.id, e.id)
          BY <3>1, <4>1, LessIsStrictTotalOrder
        <4> QED
          BY <3>2, <4>2
      <3>6. Less(d.id, n.id) \/ Less(e.id, m.id)
        BY <2>1, <2>3 DEF PairsApart, Apart
      <3> QED
        BY <3>4, <3>5, <3>6
    <2>4. \A c \in Conv, a \in User : Exists(c) /\ IsParticipant(c, a) =>
            {m.id : m \in Newest({m \in FromOther(c, a) : m.read # Never})}
              = {e.message : e \in Newest(ReadEvents(c, a))}
      BY <2>1 DEF ReadIsTold, Tells, ReadOf
    <2> QED
      BY <2>2, <2>3, <2>4 DEF EventsTellMessages
  <1> QED
    BY <1>1, Invariance, PTL

-----------------------------------------------------------------------------
(* Listings. *)

(* Rows, or entries of a log, that the listing can order.                  *)
Ordered(S) ==
  /\ IsFiniteSet(S)
  /\ \A m \in S : m.id \in Id /\ m.at = m.id.ms
  /\ \A m, n \in S : m.id = n.id => m = n

Below(S, m) == {n \in S : n = m \/ Before(n, m)}

(* Before is a strict total order on what can be ordered.                  *)
LEMMA BeforeIsOrder ==
  ASSUME NEW S, Ordered(S), NEW k \in S, NEW m \in S, NEW n \in S
  PROVE  /\ ~Before(m, m)
         /\ Before(k, m) /\ Before(m, n) => Before(k, n)
         /\ m # n => Before(m, n) \/ Before(n, m)
  <1>1. k.id \in Id /\ m.id \in Id /\ n.id \in Id
    BY DEF Ordered
  <1>2. /\ Before(m, m) <=> Less(m.id, m.id)
        /\ Before(k, m) <=> Less(k.id, m.id)
        /\ Before(m, n) <=> Less(m.id, n.id)
        /\ Before(n, m) <=> Less(n.id, m.id)
        /\ Before(k, n) <=> Less(k.id, n.id)
    BY Orders DEF Ordered
  <1>3. m # n => m.id # n.id
    BY DEF Ordered
  <1>4. ~Less(m.id, m.id)
    BY <1>1, LessIsStrictTotalOrder
  <1>5. Less(k.id, m.id) /\ Less(m.id, n.id) => Less(k.id, n.id)
    BY <1>1, LessIsStrictTotalOrder
  <1>6. m.id # n.id => Less(m.id, n.id) \/ Less(n.id, m.id)
    BY <1>1, LessIsStrictTotalOrder
  <1> QED
    BY <1>2, <1>3, <1>4, <1>5, <1>6

(* The ranks of n rows are the numbers 1..n, in the order of the rows.     *)
LEMMA Ranks ==
  ASSUME NEW S, Ordered(S)
  PROVE  /\ Cardinality(S) \in Nat
         /\ \A m \in S : Rank(S, m) \in 1..Cardinality(S)
         /\ \A m, n \in S : Before(m, n) => Rank(S, m) < Rank(S, n)
         /\ \A m, n \in S : Rank(S, m) = Rank(S, n) => m = n
         /\ \A i \in 1..Cardinality(S) : \E m \in S : Rank(S, m) = i
  <1>1. IsFiniteSet(S) /\ Cardinality(S) \in Nat
    BY FS_CardinalityType DEF Ordered
  <1>2. \A m \in S : Below(S, m) \in SUBSET S /\ m \in Below(S, m)
    BY DEF Below
  <1>3. ASSUME NEW m \in S
        PROVE  Rank(S, m) \in 1..Cardinality(S)
    <2>1. IsFiniteSet(Below(S, m)) /\ Cardinality(Below(S, m)) <= Cardinality(S)
      BY <1>1, <1>2, FS_Subset
    <2>2. Cardinality(Below(S, m)) \in Nat
      BY <2>1, FS_CardinalityType
    <2>3. Cardinality(Below(S, m)) # 0
      BY <1>2, <2>1, FS_EmptySet
    <2> QED
      BY <1>1, <2>1, <2>2, <2>3 DEF Rank, Below
  <1>4. ASSUME NEW m \in S, NEW n \in S, Before(m, n)
        PROVE  Rank(S, m) < Rank(S, n)
    <2>1. IsFiniteSet(Below(S, n))
      BY <1>1, <1>2, FS_Subset
    <2>2. Below(S, m) \in SUBSET Below(S, n)
      BY <1>4, BeforeIsOrder DEF Below
    <2>3. n \notin Below(S, m)
      <3>1. n # m
        BY <1>4, BeforeIsOrder
      <3>2. ~Before(n, m)
        BY <1>4, BeforeIsOrder
      <3> QED
        BY <3>1, <3>2 DEF Below
    <2>4. Cardinality(Below(S, m)) <= Cardinality(Below(S, n))
      BY <2>1, <2>2, FS_Subset
    <2>5. Cardinality(Below(S, m)) # Cardinality(Below(S, n))
      <3> SUFFICES ASSUME Cardinality(Below(S, m)) = Cardinality(Below(S, n)) PROVE FALSE
        OBVIOUS
      <3>1. Below(S, n) = Below(S, m)
        BY <2>1, <2>2, FS_Subset
      <3> QED
        BY <1>2, <2>3, <3>1
    <2>6. Rank(S, m) = Cardinality(Below(S, m)) /\ Rank(S, n) = Cardinality(Below(S, n))
      BY DEF Rank, Below
    <2>7. Rank(S, m) \in Nat /\ Rank(S, n) \in Nat
      BY <1>1, <1>3
    <2> QED
      BY <2>4, <2>5, <2>6, <2>7
  <1>5. ASSUME NEW m \in S, NEW n \in S, Rank(S, m) = Rank(S, n)
        PROVE  m = n
    <2>1. ~Before(m, n) /\ ~Before(n, m)
      BY <1>1, <1>3, <1>4, <1>5
    <2> QED
      BY <2>1, BeforeIsOrder
  <1>6. \A i \in 1..Cardinality(S) : \E m \in S : Rank(S, m) = i
    <2> DEFINE T == 1..Cardinality(S)
               f == [m \in S |-> Rank(S, m)]
    <2>1. f \in Injection(S, T)
      BY <1>3, <1>5 DEF Injection, IsInjective
    <2>2. IsFiniteSet(T) /\ Cardinality(T) = Cardinality(S)
      BY <1>1, FS_Interval
    <2>3. f \in Surjection(S, T)
      BY <2>1, <2>2, FS_Injection
    <2> QED
      BY <2>3 DEF Surjection
  <1> QED
    BY <1>1, <1>3, <1>4, <1>5, <1>6

LEMMA Listed ==
  ASSUME NEW S, Ordered(S)
  PROVE  /\ OldestFirst(S) \in Seq(S)
         /\ Len(OldestFirst(S)) = Cardinality(S)
         /\ Cardinality(S) \in Nat
         /\ \A i \in 1..Cardinality(S) :
              OldestFirst(S)[i] \in S /\ Rank(S, OldestFirst(S)[i]) = i
         /\ \A m \in S : OldestFirst(S)[Rank(S, m)] = m
  <1> DEFINE L == OldestFirst(S)
             N == Cardinality(S)
  <1>1. N \in Nat
    BY Ranks
  <1>2. \A i \in 1..N : L[i] \in S /\ Rank(S, L[i]) = i
    <2> SUFFICES ASSUME NEW i \in 1..N PROVE L[i] \in S /\ Rank(S, L[i]) = i
      OBVIOUS
    <2>1. \E m \in S : Rank(S, m) = i
      BY Ranks
    <2>2. L[i] = CHOOSE m \in S : Rank(S, m) = i
      BY DEF OldestFirst
    <2> QED
      BY <2>1, <2>2
  <1>3. L = [i \in 1..N |-> L[i]]
    BY DEF OldestFirst
  <1>4. L \in Seq(S) /\ Len(L) = N
    BY <1>1, <1>2, <1>3
  <1>5. ASSUME NEW m \in S PROVE L[Rank(S, m)] = m
    <2>1. Rank(S, m) \in 1..N
      BY Ranks
    <2>2. L[Rank(S, m)] \in S /\ Rank(S, L[Rank(S, m)]) = Rank(S, m)
      BY <1>2, <2>1
    <2> QED
      BY <2>2, Ranks
  <1> QED
    BY <1>1, <1>2, <1>4, <1>5

(* The oldest rows are listed the same whether younger ones are there.     *)
LEMMA PrefixListed ==
  ASSUME NEW S, Ordered(S), NEW T \in SUBSET S,
         \A m \in T : \A n \in S : Before(n, m) => n \in T
  PROVE  /\ Ordered(T)
         /\ Cardinality(T) \in 0..Cardinality(S)
         /\ \A m \in T : Rank(T, m) = Rank(S, m)
         /\ \A i \in 1..Cardinality(T) : OldestFirst(T)[i] = OldestFirst(S)[i]
  <1>1. IsFiniteSet(T) /\ Cardinality(T) <= Cardinality(S)
    BY FS_Subset DEF Ordered
  <1>2. Ordered(T)
    BY <1>1 DEF Ordered
  <1>3. Cardinality(T) \in Nat /\ Cardinality(S) \in Nat
    BY <1>2, Listed
  <1>4. ASSUME NEW m \in T
        PROVE  Rank(T, m) = Rank(S, m)
    <2>1. Below(T, m) = Below(S, m)
      BY DEF Below
    <2> QED
      BY <2>1 DEF Rank, Below
  <1>5. ASSUME NEW i \in 1..Cardinality(T)
        PROVE  OldestFirst(T)[i] = OldestFirst(S)[i]
    <2>1. OldestFirst(T)[i] \in T /\ Rank(T, OldestFirst(T)[i]) = i
      BY <1>2, Listed
    <2>2. Rank(S, OldestFirst(T)[i]) = i
      BY <1>4, <2>1
    <2> QED
      BY <2>1, <2>2, Listed
  <1> QED
    BY <1>1, <1>2, <1>3, <1>4, <1>5

(* A listing depends on identifiers alone. *)
LEMMA SameIdsListed ==
  ASSUME NEW S, Ordered(S), NEW T, Ordered(T),
         \A m \in S : \E n \in T : n.id = m.id,
         \A n \in T : \E m \in S : m.id = n.id
  PROVE  /\ Cardinality(S) = Cardinality(T)
         /\ \A i \in 1..Cardinality(S) : OldestFirst(S)[i].id = OldestFirst(T)[i].id
  <1> DEFINE f == [m \in S |-> CHOOSE n \in T : n.id = m.id]
  <1>1. \A m \in S : f[m] \in T /\ f[m].id = m.id
    <2> SUFFICES ASSUME NEW m \in S PROVE f[m] \in T /\ f[m].id = m.id
      OBVIOUS
    <2>1. \E n \in T : n.id = m.id
      OBVIOUS
    <2> QED
      BY <2>1
  <1>2. \A n \in T : \E m \in S : f[m] = n
    <2> SUFFICES ASSUME NEW n \in T PROVE \E m \in S : f[m] = n
      OBVIOUS
    <2>1. PICK m \in S : m.id = n.id
      OBVIOUS
    <2> QED
      BY <1>1, <2>1 DEF Ordered
  <1>3. \A m, n \in S : Before(m, n) <=> Before(f[m], f[n])
    <2> SUFFICES ASSUME NEW m \in S, NEW n \in S
                 PROVE  Before(m, n) <=> Before(f[m], f[n])
      OBVIOUS
    <2>1. /\ f[m] \in T /\ f[m].id = m.id /\ f[n] \in T /\ f[n].id = n.id
      BY <1>1
    <2>2. f[m].at = m.at /\ f[n].at = n.at
      BY <2>1 DEF Ordered
    <2> QED
      BY <2>1, <2>2 DEF Before
  <1>4. \A m, n \in S : f[m] = f[n] => m = n
    BY <1>1 DEF Ordered
  <1> HIDE DEF f
  <1>5. ASSUME NEW A \in SUBSET S, NEW B \in SUBSET T,
               \A m \in S : m \in A <=> f[m] \in B
        PROVE  Cardinality(A) = Cardinality(B)
    <2> DEFINE g == [m \in A |-> f[m]]
    <2>1. g \in [A -> B]
      BY <1>5
    <2>2. \A m, n \in A : g[m] = g[n] => m = n
      BY <1>4
    <2>3. \A n \in B : \E m \in A : g[m] = n
      BY <1>2, <1>5
    <2>4. g \in Bijection(A, B)
      BY <2>1, <2>2, <2>3 DEF Bijection, Injection, Surjection, IsInjective
    <2>5. ExistsBijection(A, B)
      BY <2>4 DEF ExistsBijection
    <2>6. IsFiniteSet(A)
      BY FS_Subset DEF Ordered
    <2> QED
      BY <2>5, <2>6, FS_Bijection
  <1>6. Cardinality(S) = Cardinality(T)
    BY <1>1, <1>5
  <1>7. ASSUME NEW m \in S
        PROVE  Rank(T, f[m]) = Rank(S, m)
    <2>1. Below(S, m) \in SUBSET S /\ Below(T, f[m]) \in SUBSET T
      BY DEF Below
    <2>2. \A n \in S : n \in Below(S, m) <=> f[n] \in Below(T, f[m])
      BY <1>1, <1>3, <1>4 DEF Below
    <2>3. Cardinality(Below(S, m)) = Cardinality(Below(T, f[m]))
      BY <1>5, <2>1, <2>2
    <2> QED
      BY <2>3 DEF Rank, Below
  <1>8. ASSUME NEW i \in 1..Cardinality(S)
        PROVE  OldestFirst(S)[i].id = OldestFirst(T)[i].id
    <2>1. OldestFirst(S)[i] \in S /\ Rank(S, OldestFirst(S)[i]) = i
      BY Listed
    <2>2. /\ f[OldestFirst(S)[i]] \in T
          /\ f[OldestFirst(S)[i]].id = OldestFirst(S)[i].id
          /\ Rank(T, f[OldestFirst(S)[i]]) = i
      BY <1>1, <1>7, <2>1
    <2>3. OldestFirst(T)[i] = f[OldestFirst(S)[i]]
      BY <2>2, Listed
    <2> QED
      BY <2>2, <2>3
  <1> QED
    BY <1>6, <1>8

-----------------------------------------------------------------------------
(* What a step does to the messages. *)

(* A message stays in its context. *)
ContextsKept ==
  \A k \in messages : \A p, b : k.conv \in OfContext(p, b)' <=> k.conv \in OfContext(p, b)

(* A message appears above all others of its conversation. *)
Appears(m) ==
  /\ messages' = messages \cup {m}
  /\ m.id \in Id /\ m.at = m.id.ms /\ m.sender \in User /\ m.read = Never
  /\ m.conv \in Conv /\ Exists(m.conv)
  /\ \A n \in messages : n.id # m.id
  /\ \A n \in In(m.conv) : Less(n.id, m.id)
  /\ \A p, b : OfContext(p, b)' = OfContext(p, b)

(* One side reads through a message of the other. *)
ReadThrough(c, a, anchor, at) ==
  /\ Exists(c) /\ IsParticipant(c, a)
  /\ anchor \in FromOther(c, a) /\ at # Never
  /\ Marked(Through(c, a, anchor), at)

LEMMA CommitOnMessages ==
  ASSUME IInv, NEW w \in Worker, Commit(w)
  PROVE  /\ ContextsKept
         /\ \/ messages' = messages
            \/ \E m : Appears(m)
            \/ \E c \in Conv : \E a, anchor, at : ReadThrough(c, a, anchor, at)
  <1> SUFFICES ASSUME NEW r, NEW c, NEW o, r = tx[w].req, c = tx[w].conv, o = tx[w].out
               PROVE  /\ ContextsKept
                      /\ \/ messages' = messages
                         \/ \E m : Appears(m)
                         \/ \E d \in Conv : \E a, anchor, at : ReadThrough(d, a, anchor, at)
    OBVIOUS
  <1>1. /\ r \in Request /\ c \in Conv /\ Waiting(r, c, o)
        /\ conversations' = [d \in Conv |-> IF d \in DOMAIN o.rows THEN o.rows[d]
                                            ELSE conversations[d]]
        /\ messages' = {k \in messages : \A n \in o.put : n.id # k.id} \cup o.put
    BY Committed
  <1>2. /\ MessagesOK /\ RowsOK /\ now \in Nat
        /\ conversations = [d \in Conv |-> conversations[d]]
    BY DEF IInv, TableInv, ControlInv, IdsOK, RowsOK
  <1>3. CASE WroteOpening(r, c, o)
    <2>1. messages' = messages
      BY <1>1, <1>3 DEF WroteOpening
    <2>2. \/ conversations' = conversations
          \/ ~Exists(c) /\ \A d \in Conv \ {c} : conversations'[d] = conversations[d]
      <3>1. CASE o.rows = Nothing
        BY <1>1, <1>2, <3>1 DEF Nothing
      <3>2. CASE o.rows = Just(c, Row(r.product, r.actor)) /\ ~Exists(c)
        BY <1>1, <3>2 DEF Just
      <3> QED
        BY <1>3, <3>1, <3>2 DEF WroteOpening
    <2>3. ContextsKept
      <3>1. \A k \in messages : k.conv \in Conv /\ Exists(k.conv)
        BY <1>2 DEF MessagesOK
      <3>2. \A k \in messages : conversations'[k.conv] = conversations[k.conv]
        BY <2>2, <3>1
      <3> QED
        BY <3>1, <3>2 DEF ContextsKept, OfContext, Exists
    <2> QED
      BY <2>1, <2>3
  <1>4. CASE WroteMessage(r, c, o)
    <2>1. /\ Sends(r) /\ Exists(c)
          /\ o.rows = Just(c, o.rows[c]) /\ SameContext(o.rows[c], conversations[c])
      BY <1>4 DEF WroteMessage
    <2>2. PICK m \in o.put, e \in o.events :
            /\ o.put = {m}
            /\ m = [id |-> m.id, conv |-> c, sender |-> r.actor, at |-> m.at, read |-> Never,
                    cmd |-> r]
            /\ SentPair(e, m)
            /\ \A n \in In(c) : Less(n.id, m.id)
      BY <1>4 DEF WroteMessage
    <2>3. /\ m.conv = c /\ m.sender = r.actor /\ m.read = Never
          /\ m.id \in Id /\ m.at = m.id.ms
      BY <2>2 DEF SentPair, Made
    <2>4. \A n \in messages : n.id # m.id
      BY <1>4, FreshMessage
    <2>5. messages' = messages \cup {m}
      BY <1>1, <2>2, <2>4
    <2>6. \A p, b : OfContext(p, b)' = OfContext(p, b)
      <3>1. conversations' = [conversations EXCEPT ![c] = o.rows[c]]
        <4>1. DOMAIN o.rows = {c}
          BY <2>1 DEF Just
        <4> QED
          BY <1>1, <1>2, <4>1
      <3>2. ledger' = [k \in CommandId |-> ledger'[k]]
        BY LedgerGrows
      <3> QED
        BY <1>1, <1>2, <2>1, <3>1, <3>2, ContextsStay
    <2>7. r.actor \in User
      BY <1>1, Requests
    <2>8. Appears(m)
      BY <1>1, <2>1, <2>2, <2>3, <2>4, <2>5, <2>6, <2>7 DEF Appears
    <2> QED
      BY <2>6, <2>8 DEF ContextsKept
  <1>5. CASE WroteReading(r, c, o)
    <2>1. Exists(c) /\ IsParticipant(c, r.actor) /\ o.rows = Nothing
      BY <1>5 DEF WroteReading
    <2>2. PICK anchor \in FromOther(c, r.actor), at \in 1..now :
            o.put = Stamped(Through(c, r.actor, anchor), at)
      BY <1>5 DEF WroteReading
    <2>3. Marked(Through(c, r.actor, anchor), at)
      <3>1. PICK changed : changed = Through(c, r.actor, anchor)
        OBVIOUS
      <3>2. o.put = Stamped(changed, at)
        BY <2>2, <3>1
      <3>3. Marked(changed, at)
        BY <3>1, <3>2, ReadMarks
      <3> QED
        BY <3>1, <3>3
    <2>4. at # Never
      BY <1>2 DEF Never
    <2>5. ReadThrough(c, r.actor, anchor, at)
      BY <2>1, <2>3, <2>4 DEF ReadThrough
    <2>6. conversations' = conversations
      BY <1>1, <1>2, <2>1 DEF Nothing
    <2>7. ContextsKept
      BY <2>6 DEF ContextsKept, OfContext, Exists
    <2> QED
      BY <1>1, <2>5, <2>7
  <1> QED
    BY <1>1, <1>3, <1>4, <1>5 DEF Waiting

(* Nothing but a commit writes the tables. *)
LEMMA StepsOnMessages ==
  ASSUME IInv, [Next]_vars
  PROVE  \/ conversations' = conversations /\ messages' = messages
         \/ \E w \in Worker : Commit(w)
  <1>1. CASE UNCHANGED vars
    BY <1>1 DEF vars, tables
  <1>2. ASSUME NEW w \in Worker, NEW r \in Request, Begin(w, r)
        PROVE  conversations' = conversations /\ messages' = messages
    <2>1. UNCHANGED tables
      BY <1>2, Zenon DEF Begin
    <2> QED
      BY <2>1 DEF tables
  <1>3. ASSUME NEW w \in Worker, Step(w), ~Commit(w)
        PROVE  conversations' = conversations /\ messages' = messages
    <2>1. UNCHANGED tables
      BY <1>3 DEF Step, Replay, Miss, AnswerExisting, InsertConversation, LockConversation,
                  SendMessage, MarkRead, Refuse, Enter, RollBack
    <2> QED
      BY <2>1 DEF tables
  <1>4. ASSUME NEW w \in Worker, Fail(w)
        PROVE  conversations' = conversations /\ messages' = messages
    BY <1>4 DEF Fail, RollBack, tables
  <1>5. CASE Restart \/ Tick
    BY <1>5 DEF Restart, Tick, tables
  <1>6. CASE (\E c \in Conv, a \in User : FirstPage(c, a)) \/ NextPage
    BY <1>6 DEF FirstPage, NextPage, tables
  <1> QED
    BY <1>1, <1>2, <1>3, <1>4, <1>5, <1>6 DEF Next

-----------------------------------------------------------------------------
(* Pages. *)

LEMMA RowsAreOrdered ==
  ASSUME MessagesOK, IsFiniteSet(messages), NEW S \in SUBSET messages
  PROVE  Ordered(S)
  <1>1. IsFiniteSet(S)
    BY FS_Subset
  <1> QED
    BY <1>1 DEF Ordered, MessagesOK

(* Newest first is oldest first from the other end. *)
LEMMA ListedBackwards ==
  ASSUME NEW S, Ordered(S), NEW n, n = Cardinality(S)
  PROVE  /\ n \in Nat
         /\ NewestFirst(S) \in Seq(S) /\ Len(NewestFirst(S)) = n
         /\ \A i \in 1..n : NewestFirst(S)[i] = OldestFirst(S)[n + 1 - i]
         /\ IdsOf(NewestFirst(S)) \in Seq(Id) /\ Len(IdsOf(NewestFirst(S))) = n
         /\ \A i \in 1..n : IdsOf(NewestFirst(S))[i] = OldestFirst(S)[n + 1 - i].id
  <1> DEFINE L == OldestFirst(S)
             R == NewestFirst(S)
  <1>1. /\ n \in Nat /\ L \in Seq(S) /\ Len(L) = n
        /\ \A i \in 1..n : L[i] \in S
    BY Listed
  <1>2. R = [i \in 1..n |-> L[(n - i) + 1]]
    BY <1>1 DEF NewestFirst, Reverse
  <1>3. \A i \in 1..n : R[i] = L[n + 1 - i] /\ R[i] \in S
    <2> SUFFICES ASSUME NEW i \in 1..n PROVE R[i] = L[n + 1 - i] /\ R[i] \in S
      OBVIOUS
    <2>1. R[i] = L[(n - i) + 1]
      BY <1>2
    <2>2. (n - i) + 1 = n + 1 - i /\ n + 1 - i \in 1..n
      BY <1>1
    <2> QED
      BY <1>1, <2>1, <2>2
  <1>4. R = [i \in 1..n |-> R[i]]
    BY <1>2
  <1>5. R \in Seq(S) /\ Len(R) = n
    BY <1>1, <1>3, <1>4
  <1> HIDE DEF R, L
  <1>6. IdsOf(R) = [i \in 1..n |-> R[i].id]
    BY <1>5 DEF IdsOf
  <1>7. \A i \in 1..n : R[i].id \in Id
    BY <1>3 DEF Ordered
  <1>8. IdsOf(R) \in Seq(Id) /\ Len(IdsOf(R)) = n
    BY <1>1, <1>6, <1>7
  <1> QED
    BY <1>1, <1>3, <1>5, <1>6, <1>8 DEF R, L

(* A cursor is a message of the conversation as it was on some page. *)
CursorIn(c, cursor) ==
  /\ cursor # NoCursor /\ cursor.id \in Id /\ cursor.at = cursor.id.ms
  /\ \E m \in In(c) : m.id = cursor.id

(* A page and what is older than its cursor are together what the page was *)
(* cut from.                                                               *)
LEMMA PageCuts ==
  ASSUME MessagesOK, IsFiniteSet(messages), NEW c, NEW cursor,
         cursor = NoCursor \/ CursorIn(c, cursor),
         NEW page, page = Page(c, cursor), page.next # NoCursor
  PROVE  /\ CursorIn(c, page.next)
         /\ IdsOf(page.items) \in Seq(Id)
         /\ IdsOf(page.items) \o IdsOf(NewestFirst(Older(c, page.next)))
              = IdsOf(NewestFirst(Older(c, cursor)))
  <1>1. Limit \in Nat /\ Limit > 0
    BY LimitAssumption
  <1> SUFFICES ASSUME NEW S, S = Older(c, cursor), NEW N, N = Cardinality(S),
                      NEW L, L = OldestFirst(S), NEW F, F = NewestFirst(S)
               PROVE  /\ CursorIn(c, page.next)
                      /\ IdsOf(page.items) \in Seq(Id)
                      /\ IdsOf(page.items) \o IdsOf(NewestFirst(Older(c, page.next)))
                           = IdsOf(NewestFirst(Older(c, cursor)))
    OBVIOUS
  <1>2. S \in SUBSET messages /\ \A m \in S : m \in In(c)
    BY DEF Older, In
  <1>3. Ordered(S)
    BY <1>2, RowsAreOrdered
  <1>4. /\ N \in Nat /\ L \in Seq(S) /\ Len(L) = N
        /\ \A i \in 1..N : L[i] \in S /\ Rank(S, L[i]) = i
    BY <1>3, Listed
  <1>5. /\ F \in Seq(S) /\ Len(F) = N
        /\ \A i \in 1..N : F[i] = L[N + 1 - i]
        /\ IdsOf(F) \in Seq(Id) /\ Len(IdsOf(F)) = N
        /\ \A i \in 1..N : IdsOf(F)[i] = L[N + 1 - i].id
    BY <1>3, ListedBackwards
  <1>6. N > Limit /\ page.items = SubSeq(F, 1, Limit) /\ page.next = F[Limit]
    <2>1. page = [items |-> IF Len(F) > Limit THEN SubSeq(F, 1, Limit) ELSE F,
                  next |-> IF Len(F) > Limit THEN F[Limit] ELSE NoCursor]
      BY DEF Page
    <2>2. /\ page.items = IF Len(F) > Limit THEN SubSeq(F, 1, Limit) ELSE F
          /\ page.next = IF Len(F) > Limit THEN F[Limit] ELSE NoCursor
      BY <2>1
    <2>3. Len(F) > Limit
      BY <2>2
    <2>4. N > Limit
      BY <1>5, <2>3
    <2> QED
      BY <2>2, <2>3, <2>4
  <1> DEFINE k == N + 1 - Limit
             m == L[k]
             T == Older(c, m)
  <1>7. k \in 1..N /\ k > 1 /\ Limit \in 1..N
    BY <1>1, <1>4, <1>6
  <1>8. page.next = m /\ m \in S /\ Rank(S, m) = k /\ m \in In(c) /\ m \in messages
    BY <1>2, <1>4, <1>5, <1>6, <1>7
  <1>9. CursorIn(c, m)
    <2>1. m.id \in Id /\ m.at = m.id.ms
      BY <1>8 DEF MessagesOK
    <2>2. m # NoCursor
      <3>1. "id" \in DOMAIN m
        BY <1>8 DEF MessagesOK
      <3>2. "id" \notin DOMAIN NoCursor
        BY DEF NoCursor
      <3> QED
        BY <3>1, <3>2
    <2> QED
      BY <1>8, <2>1, <2>2 DEF CursorIn
  <1> HIDE DEF m
  <1>10. T = {n \in S : Before(n, m)}
    <2>1. T = {n \in In(c) : Before(n, m)}
      BY <1>9 DEF Older, CursorIn
    <2>2. ASSUME NEW n \in In(c), Before(n, m)
          PROVE  n \in S
      <3>1. CASE cursor = NoCursor
        BY <3>1 DEF Older
      <3>2. CASE CursorIn(c, cursor)
        <4>1. /\ n.id \in Id /\ m.id \in Id /\ cursor.id \in Id
              /\ n.at = n.id.ms /\ m.at = m.id.ms /\ cursor.at = cursor.id.ms
          BY <1>8, <3>2 DEF MessagesOK, CursorIn, In
        <4>2. Before(m, cursor)
          BY <1>8, <3>2 DEF Older, CursorIn
        <4>3. Less(n.id, m.id) /\ Less(m.id, cursor.id)
          BY <2>2, <4>1, <4>2, Orders
        <4>4. Less(n.id, cursor.id)
          BY <4>1, <4>3, LessIsStrictTotalOrder
        <4>5. Before(n, cursor)
          BY <4>1, <4>4, Orders
        <4> QED
          BY <4>5 DEF Older
      <3> QED
        BY <3>1, <3>2
    <2> QED
      BY <1>2, <2>1, <2>2
  <1> HIDE DEF T
  <1>11. /\ Ordered(T) /\ Cardinality(T) \in 0..N
         /\ \A i \in 1..Cardinality(T) : OldestFirst(T)[i] = L[i]
    <2>1. T \in SUBSET S
      BY <1>10
    <2>2. \A a \in T : \A b \in S : Before(b, a) => b \in T
      BY <1>3, <1>8, <1>10, BeforeIsOrder
    <2> QED
      BY <1>3, <2>1, <2>2, PrefixListed
  <1>12. Cardinality(T) = N - Limit
    <2>1. Below(S, m) = T \cup {m} /\ m \notin T
      BY <1>3, <1>8, <1>10, BeforeIsOrder DEF Below
    <2>2. IsFiniteSet(T)
      BY <1>11 DEF Ordered
    <2>3. Cardinality(T \cup {m}) = Cardinality(T) + 1
      BY <2>1, <2>2, FS_AddElement
    <2>4. Cardinality(Below(S, m)) = k
      BY <1>8 DEF Rank, Below
    <2>5. Cardinality(T) \in Nat
      BY <2>2, FS_CardinalityType
    <2> QED
      BY <1>1, <1>4, <2>1, <2>3, <2>4, <2>5
  <1>13. /\ Len(IdsOf(NewestFirst(T))) = N - Limit
         /\ IdsOf(NewestFirst(T)) \in Seq(Id)
         /\ \A i \in 1..(N - Limit) : IdsOf(NewestFirst(T))[i] = L[(N - Limit) + 1 - i].id
    <2>1. /\ Len(IdsOf(NewestFirst(T))) = N - Limit
          /\ IdsOf(NewestFirst(T)) \in Seq(Id)
          /\ \A i \in 1..(N - Limit) :
               IdsOf(NewestFirst(T))[i] = OldestFirst(T)[(N - Limit) + 1 - i].id
      BY <1>11, <1>12, ListedBackwards
    <2>2. \A i \in 1..(N - Limit) : (N - Limit) + 1 - i \in 1..(N - Limit)
      BY <1>1, <1>4
    <2>3. \A i \in 1..(N - Limit) : OldestFirst(T)[(N - Limit) + 1 - i] = L[(N - Limit) + 1 - i]
      BY <1>11, <1>12, <2>2
    <2> QED
      BY <2>1, <2>3
  <1>14. /\ IdsOf(page.items) \in Seq(Id) /\ Len(IdsOf(page.items)) = Limit
         /\ \A i \in 1..Limit : IdsOf(page.items)[i] = F[i].id
    <2>1. /\ page.items \in Seq(S) /\ Len(page.items) = Limit
          /\ \A i \in 1..Limit : page.items[i] = F[i]
      BY <1>1, <1>4, <1>5, <1>6
    <2>2. IdsOf(page.items) = [i \in 1..Limit |-> page.items[i].id]
      BY <2>1 DEF IdsOf
    <2>3. \A i \in 1..Limit : page.items[i] \in S /\ page.items[i].id \in Id
      BY <1>1, <1>3, <2>1 DEF Ordered
    <2> QED
      BY <1>1, <2>1, <2>2, <2>3
  <1> DEFINE A == IdsOf(page.items)
             B == IdsOf(NewestFirst(T))
             C == IdsOf(F)
  <1>15. A \o B = C
    <2>1. A \in Seq(Id) /\ B \in Seq(Id) /\ Len(A) = Limit /\ Len(B) = N - Limit
      BY <1>13, <1>14
    <2>2. C \in Seq(Id) /\ Len(C) = N
      BY <1>5
    <2>3. \A i \in 1..Limit : A[i] = C[i]
      <3> SUFFICES ASSUME NEW i \in 1..Limit PROVE A[i] = C[i]
        OBVIOUS
      <3>1. i \in 1..N
        BY <1>1, <1>4, <1>7
      <3>2. A[i] = F[i].id /\ F[i] = L[N + 1 - i]
        BY <1>5, <1>14, <3>1
      <3>3. C[i] = L[N + 1 - i].id
        BY <1>5, <3>1
      <3> QED
        BY <3>2, <3>3
    <2>4. \A i \in 1..(N - Limit) : B[i] = C[Limit + i]
      <3> SUFFICES ASSUME NEW i \in 1..(N - Limit) PROVE B[i] = C[Limit + i]
        OBVIOUS
      <3>1. B[i] = L[(N - Limit) + 1 - i].id
        BY <1>13
      <3>2. Limit + i \in 1..N /\ N + 1 - (Limit + i) = (N - Limit) + 1 - i
        BY <1>1, <1>4
      <3>3. C[Limit + i] = L[N + 1 - (Limit + i)].id
        BY <1>5, <3>2
      <3> QED
        BY <3>1, <3>2, <3>3
    <2> HIDE DEF A, B, C
    <2>5. /\ A \o B \in Seq(Id) /\ Len(A \o B) = N
          /\ \A i \in 1..N : (A \o B)[i] = IF i <= Limit THEN A[i] ELSE B[i - Limit]
      <3>1. /\ A \o B \in Seq(Id)
            /\ Len(A \o B) = Len(A) + Len(B)
            /\ \A i \in 1..(Len(A) + Len(B)) :
                 (A \o B)[i] = IF i <= Len(A) THEN A[i] ELSE B[i - Len(A)]
        BY <2>1, ConcatProperties
      <3>2. Len(A) = Limit /\ Len(A) + Len(B) = N
        BY <1>1, <1>4, <2>1
      <3> QED
        BY <3>1, <3>2
    <2>6. ASSUME NEW i \in 1..N
          PROVE  (A \o B)[i] = C[i]
      <3>1. CASE i <= Limit
        <4>1. i \in 1..Limit
          BY <1>1, <3>1
        <4> QED
          BY <2>3, <2>5, <3>1, <4>1
      <3>2. CASE ~(i <= Limit)
        <4>1. i - Limit \in 1..(N - Limit) /\ Limit + (i - Limit) = i
          BY <1>1, <1>4, <3>2
        <4>2. B[i - Limit] = C[i]
          BY <2>4, <4>1
        <4> QED
          BY <2>5, <3>2, <4>2
      <3> QED
        BY <3>1, <3>2
    <2> QED
      BY <1>4, <2>2, <2>5, <2>6
  <1> QED
    BY <1>8, <1>9, <1>14, <1>15 DEF T

-----------------------------------------------------------------------------
(* A client that walks back. *)

Walking ==
  walk.pc = "paging" =>
    /\ CursorIn(walk.conv, walk.cursor)
    /\ walk.seen \in Seq(Id)
    /\ walk.seen \o IdsOf(NewestFirst(Older(walk.conv, walk.cursor))) = walk.shown

ListInv == IsFiniteSet(messages) /\ Walking

LEMMA MarkedIds ==
  ASSUME NEW changed, NEW at, Marked(changed, at), IsFiniteSet(messages)
  PROVE  /\ IsFiniteSet(messages')
         /\ \A n \in messages' : \E k \in messages : Kept(n, k)
         /\ \A k \in messages : \E n \in messages' : Kept(n, k)
  <1> DEFINE f == [k \in messages |-> IF k \in changed THEN [k EXCEPT !.read = at] ELSE k]
  <1>1. \A k \in messages : f[k] \in messages' /\ Kept(f[k], k)
    BY DEF Marked, Kept
  <1>2. \A n \in messages' : \E k \in messages : f[k] = n /\ Kept(n, k)
    BY DEF Marked
  <1>3. f \in [messages -> messages']
    BY <1>1
  <1> HIDE DEF f
  <1>4. f \in Surjection(messages, messages')
    BY <1>2, <1>3 DEF Surjection
  <1>5. IsFiniteSet(messages')
    BY <1>4, FS_Surjection
  <1> QED
    BY <1>1, <1>2, <1>5

(* What is older than a message of a conversation stays as it is. *)
LEMMA OlderStays ==
  ASSUME MessagesOK, MessagesOK', IsFiniteSet(messages),
         NEW c, NEW cursor, CursorIn(c, cursor),
         \/ messages' = messages
         \/ \E m : Appears(m)
         \/ \E d \in Conv : \E a, anchor, at : ReadThrough(d, a, anchor, at)
  PROVE  /\ IsFiniteSet(messages')
         /\ CursorIn(c, cursor)'
         /\ IdsOf(NewestFirst(Older(c, cursor)))' = IdsOf(NewestFirst(Older(c, cursor)))
  <1>1. PICK k \in In(c) : k.id = cursor.id
    BY DEF CursorIn
  <1>2. k \in messages /\ k.conv = c /\ k.id \in Id /\ k.at = cursor.at
    BY <1>1 DEF In, MessagesOK, CursorIn
  <1>3. CASE messages' = messages
    <2>1. In(c)' = In(c)
      BY <1>3 DEF In
    <2>2. Older(c, cursor)' = Older(c, cursor)
      BY <2>1 DEF Older
    <2>3. CursorIn(c, cursor)'
      BY <2>1 DEF CursorIn
    <2> QED
      BY <1>3, <2>2, <2>3
  <1>4. ASSUME NEW m, Appears(m)
        PROVE  /\ IsFiniteSet(messages')
               /\ CursorIn(c, cursor)'
               /\ Older(c, cursor)' = Older(c, cursor)
    <2>1. messages' = messages \cup {m} /\ m.id \in Id /\ m.at = m.id.ms
      BY <1>4 DEF Appears
    <2>2. IsFiniteSet(messages')
      BY <2>1, FS_AddElement
    <2>3. CursorIn(c, cursor)'
      BY <1>1, <2>1 DEF CursorIn, In
    <2>4. ASSUME m.conv = c
          PROVE  ~Before(m, cursor)
      <3>1. Less(k.id, m.id)
        BY <1>1, <1>4, <2>4 DEF Appears
      <3>2. ~Less(m.id, cursor.id)
        BY <1>1, <1>2, <2>1, <3>1, LessIsStrictTotalOrder
      <3> QED
        BY <2>1, <3>2, Orders DEF CursorIn
    <2>5. Older(c, cursor)' = Older(c, cursor)
      BY <2>1, <2>4 DEF Older, In, CursorIn
    <2> QED
      BY <2>2, <2>3, <2>5
  <1>5. ASSUME NEW d \in Conv, NEW a, NEW anchor, NEW at, ReadThrough(d, a, anchor, at)
        PROVE  /\ IsFiniteSet(messages')
               /\ CursorIn(c, cursor)'
               /\ IdsOf(NewestFirst(Older(c, cursor)))' = IdsOf(NewestFirst(Older(c, cursor)))
    <2>1. Marked(Through(d, a, anchor), at)
      BY <1>5 DEF ReadThrough
    <2>2. /\ IsFiniteSet(messages')
          /\ \A n \in messages' : \E l \in messages : Kept(n, l)
          /\ \A l \in messages : \E n \in messages' : Kept(n, l)
      BY <2>1, MarkedIds
    <2>3. CursorIn(c, cursor)'
      BY <1>1, <2>2 DEF CursorIn, In, Kept
    <2> SUFFICES ASSUME NEW S, S = Older(c, cursor), NEW T, T = Older(c, cursor)'
                 PROVE  IdsOf(NewestFirst(T)) = IdsOf(NewestFirst(S))
      BY <2>2, <2>3
    <2>4. S \in SUBSET messages /\ Ordered(S)
      <3>1. S \in SUBSET messages
        BY DEF Older, In
      <3> QED
        BY <3>1, RowsAreOrdered
    <2>5. T \in SUBSET messages' /\ Ordered(T)
      <3>1. T \in SUBSET messages'
        BY DEF Older, In
      <3>2. IsFiniteSet(T)
        BY <2>2, <3>1, FS_Subset
      <3> QED
        BY <3>1, <3>2 DEF Ordered, MessagesOK
    <2>6. /\ \A m \in S : \E n \in T : n.id = m.id
          /\ \A n \in T : \E m \in S : m.id = n.id
      <3>1. ASSUME NEW m \in S PROVE \E n \in T : n.id = m.id
        <4>1. m \in messages /\ m.conv = c /\ Before(m, cursor)
          BY DEF Older, In, CursorIn
        <4>2. PICK n \in messages' : Kept(n, m)
          BY <2>2, <4>1
        <4> QED
          BY <4>1, <4>2 DEF Older, In, CursorIn, Before, Kept
      <3>2. ASSUME NEW n \in T PROVE \E m \in S : m.id = n.id
        <4>1. n \in messages' /\ n.conv = c /\ Before(n, cursor)
          BY DEF Older, In, CursorIn, Before, Less
        <4>2. PICK m \in messages : Kept(n, m)
          BY <2>2, <4>1
        <4> QED
          BY <4>1, <4>2 DEF Older, In, CursorIn, Before, Kept
      <3> QED
        BY <3>1, <3>2
    <2>7. /\ Cardinality(S) = Cardinality(T)
          /\ \A i \in 1..Cardinality(S) : OldestFirst(S)[i].id = OldestFirst(T)[i].id
      <3>1. Ordered(S) /\ Ordered(T)
        BY <2>4, <2>5
      <3> QED
        BY <2>6, <3>1, SameIdsListed
    <2> DEFINE A == IdsOf(NewestFirst(S))
               B == IdsOf(NewestFirst(T))
               N == Cardinality(S)
    <2>8. /\ N \in Nat /\ A \in Seq(Id) /\ Len(A) = N
          /\ \A i \in 1..N : A[i] = OldestFirst(S)[N + 1 - i].id
      BY <2>4, ListedBackwards
    <2>9. /\ B \in Seq(Id) /\ Len(B) = N
          /\ \A i \in 1..N : B[i] = OldestFirst(T)[N + 1 - i].id
      BY <2>5, <2>7, ListedBackwards
    <2>10. \A i \in 1..N : A[i] = B[i]
      <3> SUFFICES ASSUME NEW i \in 1..N PROVE A[i] = B[i]
        OBVIOUS
      <3>1. N + 1 - i \in 1..N
        BY <2>8
      <3> QED
        BY <2>7, <2>8, <2>9, <3>1
    <2> HIDE DEF A, B, N
    <2>11. A = B
      BY <2>8, <2>9, <2>10
    <2> QED
      BY <2>11 DEF A, B
  <1> QED
    BY <1>3, <1>4, <1>5

LEMMA WalksKeepSnapshots ==
  ASSUME IInv, IInv', ListInv, [Next]_vars
  PROVE  ListInv'
  <1>1. MessagesOK /\ MessagesOK' /\ IsFiniteSet(messages)
    BY DEF IInv, TableInv, ListInv
  <1>2. \/ messages' = messages
        \/ \E m : Appears(m)
        \/ \E d \in Conv : \E a, anchor, at : ReadThrough(d, a, anchor, at)
    BY StepsOnMessages, CommitOnMessages
  <1>3. IsFiniteSet(messages')
    <2>1. CASE messages' = messages
      BY <1>1, <2>1
    <2>2. ASSUME NEW m, Appears(m) PROVE IsFiniteSet(messages')
      BY <1>1, <2>2, FS_AddElement DEF Appears
    <2>3. ASSUME NEW d \in Conv, NEW a, NEW anchor, NEW at, ReadThrough(d, a, anchor, at)
          PROVE  IsFiniteSet(messages')
      BY <1>1, <2>3, MarkedIds DEF ReadThrough
    <2> QED
      BY <1>2, <2>1, <2>2, <2>3
  <1>4. CASE UNCHANGED walk
    <2> SUFFICES ASSUME walk.pc = "paging", NEW c, NEW cursor, c = walk.conv, cursor = walk.cursor
                 PROVE  Walking'
      BY <1>3, <1>4 DEF ListInv, Walking
    <2>1. /\ CursorIn(c, cursor)
          /\ walk.seen \in Seq(Id)
          /\ walk.seen \o IdsOf(NewestFirst(Older(c, cursor))) = walk.shown
      BY DEF ListInv, Walking
    <2>2. /\ CursorIn(c, cursor)'
          /\ IdsOf(NewestFirst(Older(c, cursor)))' = IdsOf(NewestFirst(Older(c, cursor)))
      BY <1>1, <1>2, <2>1, OlderStays
    <2> QED
      BY <1>4, <2>1, <2>2 DEF Walking
  <1>5. ASSUME NEW c, NEW cursor, NEW seen, NEW shown, ReadPage(c, cursor, seen, shown),
               cursor = NoCursor \/ CursorIn(c, cursor),
               UNCHANGED tables, seen \in Seq(Id),
               seen \o IdsOf(NewestFirst(Older(c, cursor))) = shown
        PROVE  ListInv'
    <2>1. messages' = messages
      BY <1>5 DEF tables
    <2>2. PICK page : page = Page(c, cursor)
      OBVIOUS
    <2>3. CASE page.next = NoCursor
      <3>1. walk'.pc # "paging"
        BY <1>5, <2>2, <2>3 DEF ReadPage, Idle
      <3> QED
        BY <1>3, <3>1 DEF ListInv, Walking
    <2>4. CASE page.next # NoCursor
      <3>1. /\ walk'.conv = c /\ walk'.cursor = page.next /\ walk'.shown = shown
            /\ walk'.seen = seen \o IdsOf(page.items)
        BY <1>5, <2>2, <2>4 DEF ReadPage
      <3> DEFINE rest == IdsOf(NewestFirst(Older(c, page.next)))
                 here == IdsOf(page.items)
      <3>2. /\ CursorIn(c, page.next) /\ here \in Seq(Id)
            /\ here \o rest = IdsOf(NewestFirst(Older(c, cursor)))
        BY <1>1, <1>5, <2>2, <2>4, PageCuts
      <3>3. rest \in Seq(Id)
        <4>1. Older(c, page.next) \in SUBSET messages
          BY DEF Older, In
        <4>2. Ordered(Older(c, page.next))
          BY <1>1, <4>1, RowsAreOrdered
        <4> QED
          BY <4>2, ListedBackwards
      <3> HIDE DEF here, rest
      <3>4. (seen \o here) \o rest = shown
        <4>1. seen \in Seq(Id) /\ here \in Seq(Id) /\ rest \in Seq(Id)
          BY <1>5, <3>2, <3>3
        <4>2. (seen \o here) \o rest = seen \o (here \o rest)
          BY <4>1, ConcatAssociative
        <4>3. here \o rest = IdsOf(NewestFirst(Older(c, cursor)))
          BY <3>2
        <4> QED
          BY <1>5, <4>2, <4>3, Zenon
      <3>5. seen \o here \in Seq(Id)
        BY <1>5, <3>2
      <3>6. /\ CursorIn(c, page.next)'
            /\ Older(c, page.next)' = Older(c, page.next)
        BY <2>1, <3>2 DEF CursorIn, Older, In
      <3>7. (seen \o here) \o IdsOf(NewestFirst(Older(c, page.next)')) = shown
        BY <3>4, <3>6 DEF rest
      <3>8. walk'.seen = seen \o here
        BY <3>1 DEF here
      <3> QED
        BY <1>3, <3>1, <3>5, <3>6, <3>7, <3>8 DEF ListInv, Walking
    <2> QED
      BY <2>3, <2>4
  <1>6. ASSUME NEW c \in Conv, NEW a \in User, FirstPage(c, a)
        PROVE  ListInv'
    <2> DEFINE all == IdsOf(NewestFirst(In(c)))
    <2>1. Older(c, NoCursor) = In(c)
      BY DEF Older
    <2>2. In(c) \in SUBSET messages
      BY DEF In
    <2>3. all \in Seq(Id)
      BY <1>1, <2>2, RowsAreOrdered, ListedBackwards
    <2>4. ReadPage(c, NoCursor, << >>, all) /\ UNCHANGED tables
      BY <1>6 DEF FirstPage
    <2> HIDE DEF all
    <2>5. << >> \in Seq(Id) /\ << >> \o all = all
      BY <2>3, ConcatEmptySeq
    <2>6. << >> \o IdsOf(NewestFirst(Older(c, NoCursor))) = all
      BY <2>1, <2>5 DEF all
    <2> QED
      BY <1>5, <2>4, <2>5, <2>6
  <1>7. CASE NextPage
    <2>1. walk.pc = "paging" /\ UNCHANGED tables
      BY <1>7 DEF NextPage
    <2>2. PICK c, cursor, seen, shown :
            c = walk.conv /\ cursor = walk.cursor /\ seen = walk.seen /\ shown = walk.shown
      OBVIOUS
    <2>3. ReadPage(c, cursor, seen, shown)
      BY <1>7, <2>2 DEF NextPage
    <2> QED
      BY <1>5, <2>1, <2>2, <2>3 DEF ListInv, Walking
  <1>8. CASE (\A c \in Conv, a \in User : ~FirstPage(c, a)) /\ ~NextPage
    <2>1. UNCHANGED walk
      <3>1. CASE UNCHANGED vars
        BY <3>1 DEF vars
      <3>2. ASSUME NEW w \in Worker, NEW r \in Request, Begin(w, r)
            PROVE  UNCHANGED walk
        BY <3>2, Zenon DEF Begin
      <3>3. ASSUME NEW w \in Worker, Step(w) \/ Fail(w)
            PROVE  UNCHANGED walk
        BY <3>3, ZenonT(30) DEF Step, Replay, Miss, AnswerExisting, InsertConversation,
                                LockConversation, SendMessage, MarkRead, Commit, Refuse, Fail,
                                Enter, RollBack
      <3>4. CASE Restart \/ Tick
        BY <3>4 DEF Restart, Tick
      <3> QED
        BY <1>8, <3>1, <3>2, <3>3, <3>4 DEF Next
    <2> QED
      BY <1>4, <2>1
  <1> QED
    BY <1>6, <1>7, <1>8

LEMMA ListInvariance == Spec => []ListInv
  <1>1. Init => ListInv
    <2> SUFFICES ASSUME Init PROVE ListInv
      OBVIOUS
    <2>1. messages = {} /\ walk.pc # "paging"
      BY DEF Init, Idle
    <2>2. IsFiniteSet(messages)
      BY <2>1, FS_EmptySet
    <2> QED
      BY <2>1, <2>2 DEF ListInv, Walking
  <1>2. IInv /\ IInv' /\ ListInv /\ [Next]_vars => ListInv'
    BY WalksKeepSnapshots
  <1> QED
    BY <1>1, <1>2, Invariance, PTL DEF Spec

(* A client that walks back page by page sees one moment of the            *)
(* conversation, whatever is sent and read in between: what it has seen    *)
(* and what is still to come are together what there was at the first page.*)
THEOREM WalksSeeOneMoment == Spec => []WalksAreSnapshots
  <1>1. ListInv => WalksAreSnapshots
    BY DEF ListInv, Walking, WalksAreSnapshots
  <1> QED
    BY <1>1, ListInvariance, PTL

-----------------------------------------------------------------------------
(* The log of a context. *)

LogMessage == [id : Id, sender : User, at : Nat]
Ours(x) == {n \in messages : n.conv \in OfContext(x.product, x.buyer)}

LEMMA EntriesAreOrdered ==
  ASSUME MessagesOK, IsFiniteSet(messages), NEW x
  PROVE  /\ Ordered(Entries(x)) /\ Entries(x) \in SUBSET LogMessage
         /\ \A m \in messages : Entry(m) \in Entries(x) <=> m \in Ours(x)
         /\ \A e \in Entries(x) : \E m \in Ours(x) : e = Entry(m)
         /\ \A m, n \in messages : Entry(m) = Entry(n) => m = n
  <1>1. \A m \in messages : /\ Entry(m) \in LogMessage
                            /\ Entry(m).id = m.id /\ Entry(m).at = m.at
                            /\ m.at = m.id.ms /\ m.id \in Id
    BY DEF MessagesOK, Entry, LogMessage
  <1>2. Entries(x) = {Entry(m) : m \in Ours(x)}
    BY DEF Entries, Ours
  <1>3. \A m, n \in messages : Entry(m).id = Entry(n).id => m = n
    BY <1>1 DEF MessagesOK
  <1>4. Ours(x) \in SUBSET messages
    BY DEF Ours
  <1>5. IsFiniteSet(Entries(x))
    <2> DEFINE f == [m \in Ours(x) |-> Entry(m)]
    <2>1. f \in Surjection(Ours(x), Entries(x))
      BY <1>2 DEF Surjection
    <2>2. IsFiniteSet(Ours(x))
      BY <1>4, FS_Subset
    <2> HIDE DEF f
    <2> QED
      BY <2>1, <2>2, FS_Surjection
  <1>6. \A e \in Entries(x) : \E m \in Ours(x) : e = Entry(m)
    BY <1>2
  <1>7. \A e \in Entries(x) : e \in LogMessage /\ e.id \in Id /\ e.at = e.id.ms
    BY <1>1, <1>4, <1>6
  <1>8. \A d, e \in Entries(x) : d.id = e.id => d = e
    BY <1>3, <1>4, <1>6
  <1>9. \A m \in messages : Entry(m) \in Entries(x) <=> m \in Ours(x)
    BY <1>2, <1>3, <1>4
  <1> QED
    BY <1>3, <1>5, <1>6, <1>7, <1>8, <1>9 DEF Ordered

(* The message that appears is the last of its log, and not read yet.      *)
LEMMA LogGrows ==
  ASSUME IInv, IInv', ListInv, ListInv', NEW m, Appears(m), NEW x \in Context,
         m.conv \in OfContext(x.product, x.buyer)
  PROVE  /\ Entry(m) \in LogMessage
         /\ LogOf(x) \in Seq(LogMessage)
         /\ LogOf(x)' = Append(LogOf(x), Entry(m))
         /\ ReadIn(x)' = ReadIn(x)
  <1>1. /\ MessagesOK /\ MessagesOK' /\ IsFiniteSet(messages) /\ IsFiniteSet(messages')
        /\ RowsOK
    BY DEF IInv, TableInv, ControlInv, ListInv
  <1>2. /\ messages' = messages \cup {m}
        /\ m.id \in Id /\ m.at = m.id.ms /\ m.sender \in User /\ m.read = Never
        /\ \A n \in messages : n.id # m.id
        /\ \A n \in In(m.conv) : Less(n.id, m.id)
        /\ OfContext(x.product, x.buyer)' = OfContext(x.product, x.buyer)
    BY DEF Appears
  <1> SUFFICES ASSUME NEW S, S = Entries(x)', NEW T, T = Entries(x),
                      NEW e, e = Entry(m), NEW N, N = Cardinality(T)
               PROVE  /\ e \in LogMessage
                      /\ LogOf(x) \in Seq(LogMessage)
                      /\ LogOf(x)' = Append(LogOf(x), e)
                      /\ ReadIn(x)' = ReadIn(x)
    OBVIOUS
  <1>3. /\ Ordered(T) /\ T \in SUBSET LogMessage
        /\ \A d \in T : \E n \in Ours(x) : d = Entry(n)
    BY <1>1, EntriesAreOrdered
  <1>4. e \in LogMessage /\ e.id = m.id /\ e.at = m.at
    BY <1>2 DEF Entry, LogMessage, Id
  <1>5. \A d \in T : Before(d, e) /\ d.id # e.id
    <2> SUFFICES ASSUME NEW n \in Ours(x) PROVE Before(Entry(n), e) /\ Entry(n).id # e.id
      BY <1>3
    <2>1. n \in messages /\ n.conv \in OfContext(x.product, x.buyer)
      BY DEF Ours
    <2>2. x.product \in Product /\ x.buyer \in User
      BY DEF Context
    <2>3. n.conv = m.conv
      BY <1>1, <2>1, <2>2 DEF RowsOK
    <2>4. Less(n.id, m.id) /\ n.id # m.id
      BY <1>2, <2>1, <2>3 DEF In
    <2>5. Entry(n).id = n.id /\ Entry(n).at = n.at /\ n.id \in Id /\ n.at = n.id.ms
      BY <1>1, <2>1 DEF Entry, MessagesOK
    <2>6. Before(Entry(n), e)
      BY <1>2, <1>4, <2>4, <2>5, Orders
    <2> QED
      BY <1>4, <2>4, <2>5, <2>6
  <1>6. S = T \cup {e}
    BY <1>2 DEF Entries
  <1>7. Ordered(S) /\ S \in SUBSET LogMessage
    <2>1. IsFiniteSet(S)
      BY <1>3, <1>6, FS_AddElement DEF Ordered
    <2> QED
      BY <1>2, <1>3, <1>4, <1>5, <1>6, <2>1 DEF Ordered
  <1>8. e \notin T /\ N \in Nat /\ Cardinality(S) = N + 1
    <2>1. e \notin T
      BY <1>5
    <2>2. IsFiniteSet(T)
      BY <1>3 DEF Ordered
    <2> QED
      BY <1>6, <2>1, <2>2, FS_AddElement, FS_CardinalityType
  <1> DEFINE L == OldestFirst(T)
             M == OldestFirst(S)
  <1>9. /\ L \in Seq(T) /\ Len(L) = N /\ \A i \in 1..N : L[i] \in T
    BY <1>3, Listed
  <1>10. /\ M \in Seq(S) /\ Len(M) = N + 1
         /\ \A d \in S : M[Rank(S, d)] = d
    BY <1>7, <1>8, Listed
  <1>11. \A i \in 1..N : M[i] = L[i]
    <2>1. T \in SUBSET S
      BY <1>6
    <2>2. \A a \in T : \A b \in S : Before(b, a) => b \in T
      <3>1. \A a \in T : ~Before(e, a)
        BY <1>5, <1>6, <1>7, BeforeIsOrder
      <3> QED
        BY <1>6, <3>1
    <2> QED
      BY <1>7, <2>1, <2>2, PrefixListed
  <1>12. M[N + 1] = e
    <2>1. Below(S, e) = S
      BY <1>5, <1>6 DEF Below
    <2>2. Rank(S, e) = N + 1
      BY <1>8, <2>1 DEF Rank, Below
    <2> QED
      BY <1>6, <1>10, <2>2
  <1> HIDE DEF L, M
  <1>13. L \in Seq(LogMessage) /\ M \in Seq(LogMessage) /\ M = Append(L, e)
    <2>1. L \in Seq(LogMessage) /\ M \in Seq(LogMessage)
      BY <1>3, <1>7, <1>9, <1>10
    <2>2. Append(L, e) \in Seq(LogMessage) /\ Len(Append(L, e)) = N + 1
      BY <1>4, <1>9, <2>1
    <2>3. \A i \in 1..(N + 1) : Append(L, e)[i] = M[i]
      BY <1>8, <1>9, <1>11, <1>12, <2>1
    <2> QED
      BY <1>10, <2>1, <2>2, <2>3
  <1>14. LogOf(x) = L /\ LogOf(x)' = M
    BY DEF LogOf, L, M
  <1>15. ReadIn(x)' = ReadIn(x)
    <2>1. \A i \in 1..N : (\E n \in messages' : Entry(n) = M[i] /\ n.read # Never)
                         <=> (\E n \in messages : Entry(n) = L[i] /\ n.read # Never)
      BY <1>2, <1>11
    <2>2. ~\E n \in messages' : Entry(n) = M[N + 1] /\ n.read # Never
      <3> SUFFICES ASSUME NEW n \in messages, Entry(n) = e PROVE FALSE
        BY <1>2, <1>12
      <3> QED
        BY <1>2 DEF Entry
    <2>3. ReadIn(x) = {i \in 1..N : \E n \in messages : Entry(n) = L[i] /\ n.read # Never}
      BY <1>9, <1>14 DEF ReadIn
    <2>4. ReadIn(x)' = {i \in 1..(N + 1) :
                         \E n \in messages' : Entry(n) = M[i] /\ n.read # Never}
      BY <1>10, <1>14 DEF ReadIn
    <2>5. 1..(N + 1) = 1..N \cup {N + 1}
      BY <1>8
    <2> QED
      BY <2>1, <2>2, <2>3, <2>4, <2>5
  <1> QED
    BY <1>4, <1>13, <1>14, <1>15

(* The logs of the other contexts stay as they are. *)
LEMMA OtherLogsStay ==
  ASSUME IInv, NEW m, Appears(m), NEW x \in Context,
         m.conv \notin OfContext(x.product, x.buyer)
  PROVE  LogOf(x)' = LogOf(x) /\ ReadIn(x)' = ReadIn(x)
  <1>1. /\ messages' = messages \cup {m}
        /\ m.read = Never
        /\ \A n \in messages : n.id # m.id
        /\ OfContext(x.product, x.buyer)' = OfContext(x.product, x.buyer)
    BY DEF Appears
  <1>2. Entries(x)' = Entries(x)
    BY <1>1 DEF Entries
  <1>3. LogOf(x)' = LogOf(x)
    BY <1>2 DEF LogOf
  <1>4. ReadIn(x)' = ReadIn(x)
    BY <1>1, <1>3 DEF ReadIn
  <1> QED
    BY <1>3, <1>4

(* Reading leaves the logs alone. *)
LEMMA ReadingKeepsLogs ==
  ASSUME NEW changed, NEW at, Marked(changed, at), ContextsKept, NEW x
  PROVE  LogOf(x)' = LogOf(x)
  <1>1. ASSUME NEW d \in Entries(x)' PROVE d \in Entries(x)
    <2>1. PICK n \in messages' : d = Entry(n) /\ n.conv \in OfContext(x.product, x.buyer)'
      BY DEF Entries, Entry
    <2>2. PICK k \in messages : Kept(n, k)
      BY DEF Marked
    <2>3. k.conv \in OfContext(x.product, x.buyer)
      BY <2>1, <2>2 DEF ContextsKept, Kept
    <2>4. d = Entry(k)
      BY <2>1, <2>2 DEF Entry, Kept
    <2> QED
      BY <2>3, <2>4 DEF Entries
  <1>2. ASSUME NEW d \in Entries(x) PROVE d \in Entries(x)'
    <2>1. PICK k \in messages : d = Entry(k) /\ k.conv \in OfContext(x.product, x.buyer)
      BY DEF Entries
    <2>2. PICK n \in messages' : Kept(n, k)
      BY DEF Marked, Kept
    <2>3. n.conv \in OfContext(x.product, x.buyer)'
      BY <2>1, <2>2 DEF ContextsKept, Kept
    <2>4. d = Entry(n)
      BY <2>1, <2>2 DEF Entry, Kept
    <2> QED
      BY <2>3, <2>4 DEF Entries, Entry
  <1>3. Entries(x)' = Entries(x)
    BY <1>1, <1>2
  <1> QED
    BY <1>3 DEF LogOf

(* What becomes read is what is marked. *)
LEMMA ReadingMarks ==
  ASSUME MessagesOK, IsFiniteSet(messages), NEW x,
         NEW changed, NEW at, at # Never, Marked(changed, at), ContextsKept,
         NEW i \in 1..Len(LogOf(x)), NEW k \in messages, Entry(k) = LogOf(x)[i]
  PROVE  /\ i \in ReadIn(x) <=> k.read # Never
         /\ i \in ReadIn(x)' <=> k.read # Never \/ k \in changed
  <1>1. \A m, n \in messages : Entry(m) = Entry(n) => m = n
    BY EntriesAreOrdered
  <1>2. i \in ReadIn(x) <=> k.read # Never
    BY <1>1 DEF ReadIn
  <1>3. i \in ReadIn(x)' <=> \E n \in messages' : Entry(n) = Entry(k) /\ n.read # Never
    <2>1. LogOf(x)' = LogOf(x)
      BY ReadingKeepsLogs
    <2> QED
      BY <2>1 DEF ReadIn
  <1>4. ASSUME k.read # Never \/ k \in changed
        PROVE  \E n \in messages' : Entry(n) = Entry(k) /\ n.read # Never
    <2>1. CASE k \in changed
      BY <2>1 DEF Marked, Kept, Entry
    <2>2. CASE k \notin changed
      BY <1>4, <2>2 DEF Marked
    <2> QED
      BY <2>1, <2>2
  <1>5. ASSUME NEW n \in messages', Entry(n) = Entry(k), n.read # Never
        PROVE  k.read # Never \/ k \in changed
    <2>1. PICK l \in messages : Kept(n, l) /\ (l \in changed \/ n = l)
      BY DEF Marked
    <2>2. Entry(n) = Entry(l)
      BY <2>1 DEF Entry, Kept
    <2>3. l = k
      BY <1>1, <1>5, <2>2
    <2> QED
      BY <1>5, <2>1, <2>3
  <1> QED
    BY <1>2, <1>3, <1>4, <1>5

(* In a log that does not change, positions are ranks. *)
LEMMA LogIsListed ==
  ASSUME MessagesOK, IsFiniteSet(messages), NEW x
  PROVE  /\ Len(LogOf(x)) \in Nat
         /\ \A i \in 1..Len(LogOf(x)) : \E k \in Ours(x) : Entry(k) = LogOf(x)[i]
         /\ \A k \in Ours(x) : \E i \in 1..Len(LogOf(x)) : Entry(k) = LogOf(x)[i]
         /\ \A i, j \in 1..Len(LogOf(x)), k, l \in Ours(x) :
              Entry(k) = LogOf(x)[i] /\ Entry(l) = LogOf(x)[j]
                => (i <= j <=> k = l \/ Before(k, l))
  <1> SUFFICES ASSUME NEW T, T = Entries(x), NEW N, N = Cardinality(T),
                      NEW L, L = OldestFirst(T)
               PROVE  /\ N \in Nat /\ Len(L) = N
                      /\ \A i \in 1..N : \E k \in Ours(x) : Entry(k) = L[i]
                      /\ \A k \in Ours(x) : \E i \in 1..N : Entry(k) = L[i]
                      /\ \A i, j \in 1..N, k, l \in Ours(x) :
                           Entry(k) = L[i] /\ Entry(l) = L[j]
                             => (i <= j <=> k = l \/ Before(k, l))
    BY DEF LogOf
  <1>1. /\ Ordered(T)
        /\ \A m \in messages : Entry(m) \in T <=> m \in Ours(x)
        /\ \A e \in T : \E m \in Ours(x) : e = Entry(m)
        /\ \A m, n \in messages : Entry(m) = Entry(n) => m = n
    BY EntriesAreOrdered
  <1>2. Ours(x) \in SUBSET messages
    BY DEF Ours
  <1>3. /\ N \in Nat /\ Len(L) = N
        /\ \A i \in 1..N : L[i] \in T /\ Rank(T, L[i]) = i
        /\ \A m \in T : L[Rank(T, m)] = m /\ Rank(T, m) \in 1..N
    BY <1>1, Listed, Ranks
  <1>4. \A k \in Ours(x) : \E i \in 1..N : Entry(k) = L[i]
    BY <1>1, <1>2, <1>3
  <1>5. ASSUME NEW i \in 1..N, NEW j \in 1..N, NEW k \in Ours(x), NEW l \in Ours(x),
               Entry(k) = L[i], Entry(l) = L[j]
        PROVE  i <= j <=> k = l \/ Before(k, l)
    <2>1. Before(k, l) <=> Before(Entry(k), Entry(l))
      BY DEF Before, Entry
    <2>2. Entry(k) \in T /\ Entry(l) \in T
      BY <1>3, <1>5
    <2>3. Rank(T, Entry(k)) = i /\ Rank(T, Entry(l)) = j
      BY <1>3, <1>5
    <2>4. Before(Entry(k), Entry(l)) => i < j
      BY <1>1, <2>2, <2>3, Ranks
    <2>5. Before(Entry(l), Entry(k)) => j < i
      BY <1>1, <2>2, <2>3, Ranks
    <2>6. k = l => i = j
      BY <2>3
    <2>7. Entry(k) # Entry(l) => Before(Entry(k), Entry(l)) \/ Before(Entry(l), Entry(k))
      BY <1>1, <2>2, BeforeIsOrder
    <2>8. Entry(k) = Entry(l) => k = l
      BY <1>1, <1>2
    <2> QED
      BY <1>3, <2>1, <2>4, <2>5, <2>6, <2>7, <2>8
  <1> QED
    BY <1>1, <1>3, <1>4, <1>5

(* One reading marks, in the log of its conversation, the messages of one  *)
(* side through a position, and none in another log.                       *)
LEMMA LogIsRead ==
  ASSUME IInv, ListInv, ContextsKept, NEW c \in Conv, NEW a, NEW anchor, NEW at,
         ReadThrough(c, a, anchor, at), NEW x \in Context
  PROVE  /\ LogOf(x)' = LogOf(x)
         /\ \/ ReadIn(x)' = ReadIn(x)
            \/ /\ c \in OfContext(x.product, x.buyer)
               /\ \E n \in 1..Len(LogOf(x)) :
                    ReadIn(x)' = ReadIn(x)
                      \cup {i \in 1..n : LogOf(x)[i].sender = LogOf(x)[n].sender}
  <1>1. MessagesOK /\ RowsOK /\ IsFiniteSet(messages)
    BY DEF IInv, TableInv, ControlInv, ListInv
  <1>2. /\ Exists(c) /\ IsParticipant(c, a) /\ at # Never
        /\ anchor \in messages /\ anchor.conv = c /\ anchor.sender # a
    BY DEF ReadThrough, FromOther, In
  <1>3. PICK changed : changed = Through(c, a, anchor)
    OBVIOUS
  <1>4. Marked(changed, at)
    BY <1>3 DEF ReadThrough
  <1>5. LogOf(x)' = LogOf(x)
    BY <1>4, ReadingKeepsLogs
  <1>6. /\ Len(LogOf(x)) \in Nat
        /\ \A i \in 1..Len(LogOf(x)) : \E k \in Ours(x) : Entry(k) = LogOf(x)[i]
    BY <1>1, LogIsListed
  <1>7. ReadIn(x) \subseteq 1..Len(LogOf(x)) /\ ReadIn(x)' \subseteq 1..Len(LogOf(x))
    BY <1>5 DEF ReadIn
  <1>8. \A i \in 1..Len(LogOf(x)) : \A k \in Ours(x) : Entry(k) = LogOf(x)[i] =>
          (i \in ReadIn(x)' <=> i \in ReadIn(x) \/ k \in changed)
    <2>1. Ours(x) \subseteq messages
      BY DEF Ours
    <2> QED
      BY <1>1, <1>2, <1>4, <2>1, ReadingMarks
  <1>9. CASE c \notin OfContext(x.product, x.buyer)
    <2>1. \A k \in Ours(x) : k \notin changed
      BY <1>3, <1>9 DEF Ours, Through, FromOther, In
    <2>2. \A i \in 1..Len(LogOf(x)) : i \in ReadIn(x)' <=> i \in ReadIn(x)
      BY <1>6, <1>8, <2>1
    <2>3. ReadIn(x)' = ReadIn(x)
      BY <1>7, <2>2
    <2> QED
      BY <1>5, <2>3
  <1>10. CASE c \in OfContext(x.product, x.buyer)
    <2>1. anchor \in Ours(x)
      BY <1>2, <1>10 DEF Ours
    <2>2. PICK n \in 1..Len(LogOf(x)) : Entry(anchor) = LogOf(x)[n]
      BY <1>1, <2>1, LogIsListed
    <2>3. ASSUME NEW i \in 1..Len(LogOf(x))
          PROVE  i \in ReadIn(x)' <=>
                   \/ i \in ReadIn(x)
                   \/ i \in 1..n /\ LogOf(x)[i].sender = LogOf(x)[n].sender
      <3>1. PICK k \in Ours(x) : Entry(k) = LogOf(x)[i]
        BY <1>6
      <3>2. k \in messages /\ k.conv = c
        <4>1. k \in messages /\ k.conv \in OfContext(x.product, x.buyer)
          BY DEF Ours
        <4>2. x.product \in Product /\ x.buyer \in User
          BY DEF Context
        <4> QED
          BY <1>1, <1>10, <4>1, <4>2 DEF RowsOK
      <3>3. LogOf(x)[i].sender = k.sender /\ LogOf(x)[n].sender = anchor.sender
        BY <2>2, <3>1 DEF Entry
      <3>4. k.sender # a <=> k.sender = anchor.sender
        <4>1. IsParticipant(c, k.sender) /\ IsParticipant(c, anchor.sender)
          BY <1>1, <1>2, <3>2 DEF MessagesOK
        <4> QED
          BY <1>2, <4>1 DEF IsParticipant
      <3>5. i <= n <=> k = anchor \/ Before(k, anchor)
        BY <1>1, <2>1, <2>2, <3>1, LogIsListed
      <3>6. i \in ReadIn(x) <=> k.read # Never
        BY <1>1, <1>2, <1>4, <3>1, <3>2, ReadingMarks
      <3>7. k \in changed <=> k.sender # a /\ k.read = Never /\ (k = anchor \/ Before(k, anchor))
        BY <1>3, <3>2 DEF Through, FromOther, In
      <3>8. i \in ReadIn(x)' <=> i \in ReadIn(x) \/ k \in changed
        BY <1>8, <3>1
      <3>9. i \in 1..n <=> i <= n
        OBVIOUS
      <3> QED
        BY <3>3, <3>4, <3>5, <3>6, <3>7, <3>8, <3>9
    <2>4. ReadIn(x)' = ReadIn(x) \cup {i \in 1..n : LogOf(x)[i].sender = LogOf(x)[n].sender}
      <3>1. 1..n \subseteq 1..Len(LogOf(x))
        BY <1>6
      <3> QED
        BY <1>7, <2>3, <3>1
    <2> QED
      BY <1>5, <1>10, <2>4
  <1> QED
    BY <1>9, <1>10

-----------------------------------------------------------------------------
(* The refinement. *)

LEMMA LogInitially ==
  ASSUME Init
  PROVE  Log!Init
  <1>1. ASSUME NEW x \in Context
        PROVE  LogOf(x) = << >> /\ ReadIn(x) = {}
    <2>1. Entries(x) = {}
      BY DEF Init, Entries
    <2>2. Cardinality(Entries(x)) = 0
      BY <2>1, FS_EmptySet
    <2>3. LogOf(x) = << >>
      BY <2>2 DEF LogOf, OldestFirst
    <2> QED
      BY <2>3 DEF ReadIn
  <1>2. [x \in Context |-> LogOf(x)] = [x \in Context |-> << >>]
    BY <1>1
  <1>3. [x \in Context |-> ReadIn(x)] = [x \in Context |-> {}]
    BY <1>1
  <1> QED
    BY <1>2, <1>3 DEF Log!Init

LEMMA AppearingGrowsLog ==
  ASSUME IInv, IInv', ListInv, ListInv', NEW m, Appears(m)
  PROVE  Log!Next
  <1>1. PICK x \in Context : m.conv \in OfContext(x.product, x.buyer)
    <2>1. m.conv \in Conv /\ Exists(m.conv)
      BY DEF Appears
    <2>2. conversations[m.conv] \in ConversationRow
      BY <2>1 DEF IInv, ControlInv, RowsOK, Exists
    <2>3. PICK x : x = [product |-> conversations[m.conv].product,
                        buyer |-> conversations[m.conv].buyer]
      OBVIOUS
    <2>4. x \in Context
      BY <2>2, <2>3 DEF Context, ConversationRow
    <2>5. m.conv \in OfContext(x.product, x.buyer)
      BY <2>1, <2>3 DEF OfContext
    <2> QED
      BY <2>4, <2>5
  <1>2. \A y \in Context : y # x => m.conv \notin OfContext(y.product, y.buyer)
    BY <1>1 DEF OfContext, Context
  <1>3. /\ Entry(m) \in LogMessage
        /\ LogOf(x) \in Seq(LogMessage)
        /\ LogOf(x)' = Append(LogOf(x), Entry(m))
        /\ ReadIn(x)' = ReadIn(x)
    BY <1>1, LogGrows
  <1>4. \A y \in Context : y # x => LogOf(y)' = LogOf(y) /\ ReadIn(y)' = ReadIn(y)
    BY <1>2, OtherLogsStay
  <1>5. /\ Len(LogOf(x)') = Len(LogOf(x)) + 1
        /\ LogOf(x)'[Len(LogOf(x)')] = Entry(m)
    BY <1>3
  <1>6. [y \in Context |-> ReadIn(y)]' = [y \in Context |-> ReadIn(y)]
    BY <1>3, <1>4
  <1>7. [y \in Context |-> LogOf(y)]' =
          [[y \in Context |-> LogOf(y)] EXCEPT ![x] = Append(@, Entry(m))]
    BY <1>3, <1>4
  <1>8. Log!Grow(x)
    BY <1>3, <1>5, <1>6, <1>7 DEF Log!Grow, LogMessage
  <1> QED
    BY <1>8 DEF Log!Next

LEMMA ReadingMarksLog ==
  ASSUME IInv, ListInv, ContextsKept, NEW c \in Conv, NEW a, NEW anchor, NEW at,
         ReadThrough(c, a, anchor, at)
  PROVE  \/ Log!Next
         \/ UNCHANGED <<[x \in Context |-> LogOf(x)], [x \in Context |-> ReadIn(x)]>>
  <1>1. [x \in Context |-> LogOf(x)]' = [x \in Context |-> LogOf(x)]
    BY LogIsRead
  <1>2. CASE \A x \in Context : ReadIn(x)' = ReadIn(x)
    BY <1>1, <1>2
  <1>3. ASSUME NEW x \in Context, ReadIn(x)' # ReadIn(x)
        PROVE  Log!Next
    <2>1. /\ c \in OfContext(x.product, x.buyer)
          /\ \E n \in 1..Len(LogOf(x)) :
               ReadIn(x)' = ReadIn(x)
                 \cup {i \in 1..n : LogOf(x)[i].sender = LogOf(x)[n].sender}
      BY <1>3, LogIsRead
    <2>2. PICK n \in 1..Len(LogOf(x)) :
            ReadIn(x)' = ReadIn(x) \cup {i \in 1..n : LogOf(x)[i].sender = LogOf(x)[n].sender}
      BY <2>1
    <2>3. \A y \in Context : y # x => c \notin OfContext(y.product, y.buyer)
      BY <2>1 DEF OfContext, Context
    <2>4. \A y \in Context : y # x => ReadIn(y)' = ReadIn(y)
      BY <2>3, LogIsRead
    <2>5. [y \in Context |-> ReadIn(y)]' =
            [[y \in Context |-> ReadIn(y)] EXCEPT
               ![x] = @ \cup {i \in 1..n : LogOf(x)[i].sender = LogOf(x)[n].sender}]
      BY <2>2, <2>4
    <2>6. Log!MarkThrough(x, n)
      BY <1>1, <2>5 DEF Log!MarkThrough
    <2> QED
      BY <1>3, <2>2, <2>6 DEF Log!Next
  <1> QED
    BY <1>2, <1>3

LEMMA StepsAreLogSteps ==
  ASSUME IInv, IInv', ListInv, ListInv', [Next]_vars
  PROVE  [Log!Next]_<<[x \in Context |-> LogOf(x)], [x \in Context |-> ReadIn(x)]>>
  <1>1. CASE messages' = messages /\ ContextsKept
    <2>1. ASSUME NEW x \in Context PROVE LogOf(x)' = LogOf(x) /\ ReadIn(x)' = ReadIn(x)
      <3>1. Entries(x)' = Entries(x)
        BY <1>1 DEF Entries, ContextsKept
      <3>2. LogOf(x)' = LogOf(x)
        BY <3>1 DEF LogOf
      <3> QED
        BY <1>1, <3>2 DEF ReadIn
    <2> QED
      BY <2>1
  <1>2. CASE conversations' = conversations /\ messages' = messages
    <2>1. ContextsKept
      BY <1>2 DEF ContextsKept, OfContext, Exists
    <2> QED
      BY <1>1, <1>2, <2>1
  <1>3. ASSUME NEW w \in Worker, Commit(w)
        PROVE  [Log!Next]_<<[x \in Context |-> LogOf(x)], [x \in Context |-> ReadIn(x)]>>
    <2>1. /\ ContextsKept
          /\ \/ messages' = messages
             \/ \E m : Appears(m)
             \/ \E c \in Conv : \E a, anchor, at : ReadThrough(c, a, anchor, at)
      BY <1>3, CommitOnMessages
    <2> QED
      BY <1>1, <2>1, AppearingGrowsLog, ReadingMarksLog
  <1> QED
    BY <1>2, <1>3, StepsOnMessages

(* The service keeps the promise of ConversationLog: whatever races, fails *)
(* or is repeated, each context has one log, a message appears at its end  *)
(* or not at all, and reading marks one side's messages through a place in *)
(* it.                                                                     *)
THEOREM LogIsImplemented == Spec => ImplementsLog
  <1>1. IInv /\ IInv' /\ ListInv /\ ListInv' /\ [Next]_vars =>
          [Log!Next]_<<[x \in Context |-> LogOf(x)], [x \in Context |-> ReadIn(x)]>>
    BY StepsAreLogSteps
  <1>2. Init => Log!Init
    BY LogInitially
  <1>3. Spec => []ListInv
    BY ListInvariance
  <1> QED
    BY <1>1, <1>2, <1>3, Invariance, PTL DEF Spec, ImplementsLog, Log!Spec
=============================================================================
