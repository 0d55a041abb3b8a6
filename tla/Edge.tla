--------------------------------- MODULE Edge ---------------------------------
(***************************************************************************)
(* What a request meets at the Gateway before its handler calls a service: *)
(* the body limit, the access token, the fixed-window rate limiter with    *)
(* its bounded table of clients, and the reading of the body.  Requests    *)
(* are served concurrently; each of them reads the clock before it takes   *)
(* the mutex of the limiter, so the table may be shown times in any order  *)
(* within Delay.  Time is counted in ticks, Second of which are a second.  *)
(***************************************************************************)
EXTENDS Contract, Integers, FiniteSets

CONSTANTS
  Slot,                \* requests served at the same time
  Request,             \* [ep, remote, forwarded, token, body] that clients send
  Null,
  TrustProxyHeaders,
  LimitOf,             \* budget of each class of requests, 0 for no limit
  Window, MaxKeys,     \* length of a window, bound on the table
  Second,              \* ticks in a second
  Delay,               \* bound on the time between reading the clock and the mutex
  MaxBody, MaxUpload,  \* limits on JSON bodies and on forms
  TTL, Leeway,         \* life of a token, and tolerance of its times
  Skew,                \* bound on the difference of the clocks of the services
  MaxTime, MaxRequests \* bounds on the run

ASSUME LimitAssumption ==
  /\ Window \in Nat \ {0} /\ MaxKeys \in Nat \ {0} /\ Second \in Nat \ {0}
  /\ LimitOf \in [{"register", "login", "message", "upload", "trade"} -> Nat]
  /\ Delay \in 0..(Window - 1)
ASSUME ClockAssumption ==
  /\ TTL \in Nat /\ Leeway \in Nat /\ Skew \in Nat
  /\ Second <= Leeway /\ Skew <= Leeway

VARIABLES
  entries,      \* window of each client in the table: [started, count]
  lastPrune,    \* reading of the clock at the last sweep, or Never
  slot,         \* what each request is doing
  now,          \* the clock
  served,       \* requests that have arrived
  admitted,     \* what the limiter let through: [key, at, nth]
  promised      \* when each refused client was told to come back, or Never

vars == <<entries, lastPrune, slot, now, served, admitted, promised>>

Never == -1
Idle == [pc |-> "idle"]

-----------------------------------------------------------------------------
(* Access tokens: their times are whole seconds of the Account service's   *)
(* clock, and the Gateway's clock reads them.                              *)

WholeSecond(t) == (t \div Second) * Second

Issue(sub, at) == [sub |-> sub, nbf |-> WholeSecond(at), exp |-> WholeSecond(at + TTL)]

(* Mutant: the times are compared without tolerance. *)
VerifyExactly(token, t) == t < token.exp /\ t >= token.nbf

Verify(token, t) == t < token.exp + Leeway /\ t >= token.nbf - Leeway

(* A token some client may hold now. *)
Held(sub) == {Issue(sub, at + skew) : at \in 0..now, skew \in -Skew..Skew}

Unauthenticated(r) ==
  /\ r.ep \notin Public
  /\ \/ r.token = Null
     \/ \E token \in Held(r.token) : ~Verify(token, now)

Authenticated(r) ==
  \/ r.ep \in Public
  \/ r.token # Null /\ \E token \in Held(r.token) : Verify(token, now)

-----------------------------------------------------------------------------
(* The limiter. *)

ClientIP(r) == IF TrustProxyHeaders /\ r.forwarded # Null THEN r.forwarded ELSE r.remote
Identity(r) == IF r.ep \in Public THEN ClientIP(r) ELSE r.token
KeyOf(r) == [rule |-> RuleOf(r.ep), id |-> Identity(r)]
Limited(r) == RuleOf(r.ep) # "none" /\ LimitOf[RuleOf(r.ep)] # 0
Keys == {KeyOf(r) : r \in {q \in Request : Limited(q)}}

Expired(entry, t) == t - entry.started >= Window
PruneDue(t) == lastPrune = Never \/ t - lastPrune >= Window

(* Mutant: the table is never swept. *)
SweptNever(t) == entries

(* The table a call at reading t looks at: swept at most once per window.  *)
Swept(t) ==
  IF PruneDue(t)
  THEN [k \in {k \in DOMAIN entries : ~Expired(entries[k], t)} |-> entries[k]]
  ELSE entries

Known(k, t) == k \in DOMAIN Swept(t) /\ ~Expired(Swept(t)[k], t)

EntryOf(k, t) == IF Known(k, t) THEN Swept(t)[k] ELSE [started |-> t, count |-> 0]

(* An expired entry makes its client new again, but still takes its place  *)
(* in the table until the next sweep.                                      *)
Full(k, t) == ~Known(k, t) /\ Cardinality(DOMAIN Swept(t)) >= MaxKeys

(* Mutant: one request too many. *)
SpentLate(k, t) == EntryOf(k, t).count > LimitOf[k.rule]
Spent(k, t) == EntryOf(k, t).count >= LimitOf[k.rule]

Remaining(k, t) ==
  LET left == Window - (t - EntryOf(k, t).started) IN IF left < 0 THEN 0 ELSE left

(* Mutant: the fraction of a second is lost. *)
RetryAfterFloor(remaining) == remaining \div Second

(* Retry-After, in seconds. *)
RetryAfter(remaining) == remaining \div Second + 1

Waiting(s) == slot[s].pc = "limit"

(* What every call does to the table first. *)
Sweep(t) == lastPrune' = IF PruneDue(t) THEN t ELSE lastPrune

Admit(s) ==
  LET k == slot[s].key
      t == slot[s].at
  IN
  /\ Waiting(s)
  /\ ~Full(k, t) /\ ~Spent(k, t)
  /\ Sweep(t)
  /\ entries' = [x \in DOMAIN Swept(t) \cup {k} |->
                   IF x = k THEN [EntryOf(k, t) EXCEPT !.count = @ + 1] ELSE Swept(t)[x]]
  /\ slot' = [slot EXCEPT ![s] = [pc |-> "handle", req |-> @.req]]
  /\ admitted' = admitted \cup
       {[key |-> k, at |-> t, nth |-> Cardinality({a \in admitted : a.key = k /\ a.at = t})]}
  /\ promised' = [promised EXCEPT ![k] = Never]
  /\ UNCHANGED <<now, served>>

Refusal(s, remaining, why) ==
  LET k == slot[s].key
      t == slot[s].at
  IN
  /\ Sweep(t)
  /\ entries' = Swept(t)
  /\ slot' = [slot EXCEPT ![s] = [pc |-> "done", status |-> StatusFor("RATE_LIMITED"),
                                  req |-> @.req, why |-> why, at |-> t]]
  /\ promised' = [promised EXCEPT ![k] = t + RetryAfter(remaining) * Second]
  /\ UNCHANGED <<now, served, admitted>>

RefuseNewClient(s) ==
  /\ Waiting(s)
  /\ Full(slot[s].key, slot[s].at)
  /\ Refusal(s, Window, "full")

RefuseSpent(s) ==
  /\ Waiting(s)
  /\ ~Full(slot[s].key, slot[s].at) /\ Spent(slot[s].key, slot[s].at)
  /\ Refusal(s, Remaining(slot[s].key, slot[s].at), "spent")

-----------------------------------------------------------------------------
(* The way of a request. *)

Answer(s, status) ==
  slot' = [slot EXCEPT ![s] = [pc |-> "done", status |-> status, req |-> @.req,
                               why |-> "none", at |-> Never]]

(* Authentication comes first; then the clock is read for the limiter.     *)
Arrive(s, r) ==
  /\ slot[s].pc \in {"idle", "done"} /\ served < MaxRequests
  /\ served' = served + 1
  /\ \/ /\ Unauthenticated(r)
        /\ slot' = [slot EXCEPT ![s] = [pc |-> "done", status |-> StatusFor("UNAUTHORIZED"),
                                        req |-> r, why |-> "none", at |-> Never]]
     \/ /\ Authenticated(r) /\ ~Limited(r)
        /\ slot' = [slot EXCEPT ![s] = [pc |-> "handle", req |-> r]]
     \/ /\ Authenticated(r) /\ Limited(r)
        /\ slot' = [slot EXCEPT ![s] = [pc |-> "limit", req |-> r, key |-> KeyOf(r), at |-> now]]
  /\ UNCHANGED <<entries, lastPrune, now, admitted, promised>>

(* Readers of the body: the limit of the middleware is around every one,   *)
(* the limit of forms around that.  The size of a JSON body is that of its *)
(* value: what follows beyond the limit is never seen, what follows within *)
(* the limit and is not white space makes the body unsound.  An absent     *)
(* body is sound; an empty one that is sent in chunks is not.              *)
Least(a, b) == IF a < b THEN a ELSE b
Room(ep) == IF ep \in FormBody THEN Least(MaxBody, MaxUpload) ELSE MaxBody
ReadsBody(r) ==
  /\ r.ep \in JSONBody \cup FormBody
  /\ ~(r.ep \in OptionalBody /\ r.body.size = 0 /\ r.body.sound)

TooLarge(s) ==
  LET r == slot[s].req IN
  /\ slot[s].pc = "handle"
  /\ ReadsBody(r) /\ r.body.size > Room(r.ep)
  /\ Answer(s, StatusFor("PAYLOAD_TOO_LARGE"))
  /\ UNCHANGED <<entries, lastPrune, now, served, admitted, promised>>

(* A mistake may be met before the end of the room. *)
Malformed(s) ==
  LET r == slot[s].req IN
  /\ slot[s].pc = "handle"
  /\ ReadsBody(r) /\ ~r.body.sound
  /\ Answer(s, StatusFor("VALIDATION_ERROR"))
  /\ UNCHANGED <<entries, lastPrune, now, served, admitted, promised>>

(* The handler goes on to the services. *)
Handle(s) ==
  LET r == slot[s].req IN
  /\ slot[s].pc = "handle"
  /\ ReadsBody(r) => r.body.sound /\ r.body.size <= Room(r.ep)
  /\ Answer(s, 200)
  /\ UNCHANGED <<entries, lastPrune, now, served, admitted, promised>>

Tick ==
  /\ now < MaxTime
  /\ \A s \in Slot : Waiting(s) => now < slot[s].at + Delay
  /\ now' = now + 1
  /\ UNCHANGED <<entries, lastPrune, slot, served, admitted, promised>>

Init ==
  /\ entries = [k \in {} |-> 0]
  /\ lastPrune = Never
  /\ slot = [s \in Slot |-> Idle]
  /\ now = 0
  /\ served = 0
  /\ admitted = {}
  /\ promised = [k \in Keys |-> Never]

Next ==
  \/ \E s \in Slot :
       \/ \E r \in Request : Arrive(s, r)
       \/ Admit(s) \/ RefuseNewClient(s) \/ RefuseSpent(s)
       \/ TooLarge(s) \/ Malformed(s) \/ Handle(s)
  \/ Tick

Spec == Init /\ [][Next]_vars

-----------------------------------------------------------------------------
(* Properties. *)

(* Whatever order the readings reach the table in, it never holds more     *)
(* clients than MaxKeys, and no window more requests than its budget.      *)
TableBounded ==
  /\ Cardinality(DOMAIN entries) <= MaxKeys
  /\ \A k \in DOMAIN entries : entries[k].count \in 1..LimitOf[k.rule]

(* A fixed window lets a client through at most twice its budget within    *)
(* any period of a window, less what late readings may take off the        *)
(* distance of two windows.                                                *)
TwoWindowsAtMost ==
  \A k \in Keys, from \in 0..now :
    Cardinality({a \in admitted : a.key = k /\ a.at \in from..(from + Window - 3 * Delay)})
      <= 2 * LimitOf[k.rule]

(* A new client is turned away for lack of room only when MaxKeys others   *)
(* have really been served within the last two windows: a sweep that is    *)
(* late, or done with a late reading, does not keep dead entries longer.   *)
FullTableIsRecent ==
  \A s \in Slot : slot[s].pc = "done" /\ slot[s].why = "full" =>
    Cardinality({a.key : a \in {b \in admitted : b.at > slot[s].at - 2 * Window}}) >= MaxKeys

(* A client that comes back when it was told to, and nobody used its       *)
(* budget in between, is not told to wait again - unless the table is full *)
(* of others.                                                              *)
RetryAfterIsKept ==
  \A s \in Slot : Waiting(s) =>
    LET k == slot[s].key
        t == slot[s].at
    IN  promised[k] # Never /\ t >= promised[k] => Full(k, t) \/ ~Spent(k, t)

(* With clocks that differ, a token works from the moment it is issued     *)
(* until the time its owner was told, and not longer than the tolerances   *)
(* allow after that.                                                       *)
SessionsLastAsTold ==
  \A at \in 0..now, skew \in -Skew..Skew :
    LET token == Issue(Null, at + skew) IN
      /\ now < at + skew + TTL => Verify(token, now)
      /\ now >= at + TTL + Leeway + Skew => ~Verify(token, now)
=============================================================================
