------------------------------ MODULE OutboxProofs ------------------------------
(***************************************************************************)
(* Proofs about Outbox, for any number of workers, events, batch size and  *)
(* faults.                                                                 *)
(***************************************************************************)
EXTENDS Outbox, FiniteSetTheorems, SequenceTheorems, TLAPS

(* A worker that is busy has an event in hand, every event of its batch is *)
(* in the table, and the one it is about to mark reached the publisher.    *)
HandInv ==
  \A w \in Worker :
    worker[w].pc # "sleep" =>
      /\ worker[w].batch # << >>
      /\ \A i \in 1..Len(worker[w].batch) : worker[w].batch[i] \in committed
      /\ worker[w].pc = "mark" => delivered[Head(worker[w].batch)] > 0

IInv == TypeOK /\ HandInv /\ PublishedWasDelivered

WorkerState == [pc : {"sleep", "publish", "mark", "mark_failed"}, batch : Seq(Event)]

(* A worker that has handled an event goes on with the rest of its batch,  *)
(* or sleeps.                                                              *)
LEMMA RestOfBatch ==
  ASSUME NEW S, S \subseteq Event, NEW q \in Seq(Event), q # << >>,
         \A i \in 1..Len(q) : q[i] \in S
  PROVE  /\ Head(q) \in S
         /\ Loop(Tail(q)) \in WorkerState
         /\ Loop(Tail(q)).pc \in {"sleep", "publish"}
         /\ Loop(Tail(q)).pc # "sleep" =>
              /\ Loop(Tail(q)).batch # << >>
              /\ \A i \in 1..Len(Loop(Tail(q)).batch) : Loop(Tail(q)).batch[i] \in S
  <1>1. Head(q) = q[1] /\ Len(q) \in Nat /\ Len(q) > 0
    BY EmptySeq, SMT
  <1>2. /\ Tail(q) \in Seq(Event) /\ Len(Tail(q)) = Len(q) - 1
        /\ \A i \in 1..Len(Tail(q)) : Tail(q)[i] = q[i + 1]
    BY HeadTailProperties
  <1>3. \A i \in 1..Len(Tail(q)) : Tail(q)[i] \in S
    BY <1>1, <1>2
  <1>4. CASE Tail(q) = << >>
    BY <1>1, <1>4 DEF Loop, Sleeping, WorkerState
  <1>5. CASE Tail(q) # << >>
    BY <1>1, <1>2, <1>3, <1>5 DEF Loop, WorkerState
  <1>6. QED BY <1>4, <1>5

LEMMA BatchOf ==
  ASSUME NEW S, S \subseteq Event, NEW q \in Batches(S)
  PROVE  /\ Loop(q) \in WorkerState
         /\ Loop(q).pc \in {"sleep", "publish"}
         /\ Loop(q).pc # "sleep" =>
              /\ Loop(q).batch # << >>
              /\ \A i \in 1..Len(Loop(q).batch) : Loop(q).batch[i] \in S
  <1> DEFINE n == IF Cardinality(S) < BatchSize THEN Cardinality(S) ELSE BatchSize
  <1>1. n \in Nat
    BY OutboxAssumption, FS_Subset, FS_CardinalityType
  <1>2. q \in [1..n -> S]
    BY DEF Batches
  <1>3. q \in Seq(S) /\ Len(q) = n
    BY <1>1, <1>2
  <1>4. q \in Seq(Event) /\ \A i \in 1..Len(q) : q[i] \in S
    BY <1>3, <1>2
  <1>5. CASE q = << >>
    BY <1>5 DEF Loop, Sleeping, WorkerState
  <1>6. CASE q # << >>
    BY <1>4, <1>6 DEF Loop, WorkerState
  <1>7. QED BY <1>5, <1>6

(* Committed, delivered and marked events only grow in number, so what     *)
(* another worker does keeps everything said about a worker's hand.        *)
LEMMA Inductive == IInv /\ [Next]_vars => IInv'
  <1> SUFFICES ASSUME IInv, [Next]_vars PROVE IInv'
    OBVIOUS
  <1> USE DEF IInv
  <1>t. TypeOK /\ HandInv /\ PublishedWasDelivered
    OBVIOUS
  <1>1. ASSUME NEW e \in Event, CommitEvent(e) PROVE IInv'
    BY <1>t, <1>1 DEF CommitEvent, TypeOK, HandInv, PublishedWasDelivered
  <1>2. ASSUME NEW w \in Worker, Poll(w) PROVE IInv'
    <2>1. PICK q \in Batches(Pending) : worker' = [worker EXCEPT ![w] = Loop(q)]
      BY <1>2 DEF Poll
    <2>2. Pending \subseteq committed /\ Pending \subseteq Event
      BY <1>t DEF Pending, TypeOK
    <2>3. /\ Loop(q) \in WorkerState
          /\ Loop(q).pc \in {"sleep", "publish"}
          /\ Loop(q).pc # "sleep" =>
               /\ Loop(q).batch # << >>
               /\ \A i \in 1..Len(Loop(q).batch) : Loop(q).batch[i] \in committed
      BY <2>2, BatchOf
    <2>4. UNCHANGED <<committed, published, delivered, faults>>
      BY <1>2 DEF Poll
    <2>5. TypeOK'
      BY <1>t, <2>1, <2>3, <2>4 DEF TypeOK, WorkerState
    <2>6. HandInv'
      BY <1>t, <2>1, <2>3, <2>4 DEF TypeOK, HandInv
    <2>7. QED
      BY <1>t, <2>4, <2>5, <2>6 DEF PublishedWasDelivered
  <1>3. ASSUME NEW w \in Worker, PublishOk(w) PROVE IInv'
    <2> DEFINE e == Head(worker[w].batch)
    <2>1. /\ worker[w] \in WorkerState /\ worker[w].batch # << >>
          /\ \A i \in 1..Len(worker[w].batch) : worker[w].batch[i] \in committed
      BY <1>t, <1>3 DEF PublishOk, TypeOK, HandInv, WorkerState
    <2>2. e \in committed /\ e \in Event
      BY <1>t, <2>1, RestOfBatch DEF TypeOK, WorkerState
    <2>3. /\ delivered' = [delivered EXCEPT ![e] = @ + 1]
          /\ worker' = [worker EXCEPT ![w].pc = "mark"]
          /\ UNCHANGED <<committed, published, faults>>
      BY <1>3 DEF PublishOk
    <2>4. delivered' \in [Event -> Nat] /\ delivered'[e] > 0
      BY <1>t, <2>2, <2>3 DEF TypeOK
    <2>5. \A x \in Event : delivered[x] > 0 => delivered'[x] > 0
      BY <1>t, <2>2, <2>3 DEF TypeOK
    <2>6. TypeOK'
      BY <1>t, <2>1, <2>3, <2>4 DEF TypeOK, WorkerState
    <2>7. HandInv'
      <3>1. ASSUME NEW v \in Worker, worker'[v].pc # "sleep"
            PROVE  /\ worker'[v].batch # << >>
                   /\ \A i \in 1..Len(worker'[v].batch) : worker'[v].batch[i] \in committed
                   /\ worker'[v].pc = "mark" => delivered'[Head(worker'[v].batch)] > 0
        <4>1. CASE v = w
          BY <1>t, <2>1, <2>3, <2>4, <4>1 DEF TypeOK
        <4>2. CASE v # w
          <5>1. worker'[v] = worker[v] /\ worker[v] \in WorkerState
            BY <1>t, <2>3, <4>2 DEF TypeOK, WorkerState
          <5>2. worker[v].batch # << >>
                /\ \A i \in 1..Len(worker[v].batch) : worker[v].batch[i] \in committed
            BY <1>t, <3>1, <5>1 DEF HandInv
          <5>3. Head(worker[v].batch) \in Event
            BY <1>t, <5>1, <5>2, RestOfBatch DEF TypeOK, WorkerState
          <5>4. QED BY <1>t, <2>5, <3>1, <5>1, <5>2, <5>3 DEF HandInv
        <4>3. QED BY <4>1, <4>2
      <3>2. QED BY <2>3, <3>1 DEF HandInv
    <2>8. QED
      BY <1>t, <2>3, <2>5, <2>6, <2>7 DEF TypeOK, PublishedWasDelivered
  <1>4. ASSUME NEW w \in Worker, PublishFails(w) PROVE IInv'
    BY <1>t, <1>4 DEF PublishFails, TypeOK, HandInv, PublishedWasDelivered
  <1>5. ASSUME NEW w \in Worker, MarkPublished(w) \/ MarkFailed(w) PROVE IInv'
    <2> DEFINE e == Head(worker[w].batch)
    <2>1. /\ worker[w] \in WorkerState /\ worker[w].batch # << >>
          /\ \A i \in 1..Len(worker[w].batch) : worker[w].batch[i] \in committed
      BY <1>t, <1>5 DEF MarkPublished, MarkFailed, TypeOK, HandInv, WorkerState
    <2> DEFINE next == Loop(Tail(worker[w].batch))
    <2>2. /\ e \in committed /\ next \in WorkerState
          /\ next.pc \in {"sleep", "publish"}
          /\ next.pc # "sleep" =>
               /\ next.batch # << >>
               /\ \A i \in 1..Len(next.batch) : next.batch[i] \in committed
      BY <1>t, <2>1, RestOfBatch DEF TypeOK, WorkerState
    <2>3. worker' = [worker EXCEPT ![w] = next] /\ UNCHANGED <<committed, delivered, faults>>
      BY <1>5 DEF MarkPublished, MarkFailed
    <2>4. published' = published \/ (published' = published \cup {e} /\ delivered[e] > 0)
      BY <1>t, <1>5 DEF MarkPublished, MarkFailed, HandInv
    <2>5. TypeOK'
      BY <1>t, <2>2, <2>3, <2>4 DEF TypeOK, WorkerState
    <2>6. HandInv'
      BY <1>t, <2>2, <2>3 DEF TypeOK, HandInv
    <2>7. PublishedWasDelivered'
      BY <1>t, <2>3, <2>4 DEF PublishedWasDelivered
    <2>8. QED BY <2>5, <2>6, <2>7
  <1>6. ASSUME NEW w \in Worker, Interrupted(w) PROVE IInv'
    BY <1>t, <1>6, OutboxAssumption
    DEF Interrupted, Sleeping, TypeOK, HandInv, PublishedWasDelivered
  <1>7. CASE UNCHANGED vars
    BY <1>t, <1>7 DEF vars, TypeOK, HandInv, PublishedWasDelivered
  <1>8. QED
    BY <1>1, <1>2, <1>3, <1>4, <1>5, <1>6, <1>7 DEF Next, Drain

(* Types, and: no event that is marked published has missed the publisher. *)
THEOREM NothingIsLost == Spec => [](TypeOK /\ PublishedWasDelivered)
  <1>1. Init => IInv
    BY OutboxAssumption
    DEF Init, IInv, TypeOK, HandInv, PublishedWasDelivered, Sleeping
  <1>2. IInv => TypeOK /\ PublishedWasDelivered
    BY DEF IInv
  <1>3. QED
    BY <1>1, <1>2, Inductive, PTL DEF Spec

-----------------------------------------------------------------------------
(* How often an event can still be delivered without another fault: once   *)
(* by every worker that has it ahead of itself, or may still poll it.  A   *)
(* worker about to mark an event has used its turn.                        *)

Ahead(w, e) ==
  /\ worker[w].pc # "sleep"
  /\ \E i \in 1..Len(worker[w].batch) :
       worker[w].batch[i] = e /\ (i > 1 \/ worker[w].pc = "publish")

Used(w, e) == worker[w].pc = "mark" /\ worker[w].batch[1] = e

Turns(e) == {w \in Worker : ~Used(w, e) /\ (e \notin published \/ Ahead(w, e))}

BatchesIncrease ==
  \A w \in Worker : \A i, j \in 1..Len(worker[w].batch) :
    i < j => worker[w].batch[i] < worker[w].batch[j]

TurnsCounted ==
  \A e \in Event : delivered[e] + Cardinality(Turns(e)) <= Cardinality(Worker) + faults

LEMMA TurnsAreFew ==
  /\ IsFiniteSet(Worker) /\ Cardinality(Worker) \in Nat
  /\ \A S \in SUBSET Worker :
       /\ IsFiniteSet(S) /\ Cardinality(S) \in Nat
       /\ \A T \in SUBSET S : Cardinality(T) <= Cardinality(S)
       /\ \A w \in S : Cardinality(S \ {w}) = Cardinality(S) - 1
       /\ \A w \in Worker : Cardinality(S \cup {w}) <= Cardinality(S) + 1
  <1>1. IsFiniteSet(Worker) /\ Cardinality(Worker) \in Nat
    BY OutboxAssumption, FS_CardinalityType
  <1>2. ASSUME NEW S \in SUBSET Worker
        PROVE  IsFiniteSet(S) /\ Cardinality(S) \in Nat
    BY <1>1, FS_Subset, FS_CardinalityType
  <1>3. ASSUME NEW S \in SUBSET Worker, NEW T \in SUBSET S
        PROVE  Cardinality(T) <= Cardinality(S)
    BY <1>2, FS_Subset
  <1>4. ASSUME NEW S \in SUBSET Worker, NEW w \in S
        PROVE  Cardinality(S \ {w}) = Cardinality(S) - 1
    BY <1>2, FS_RemoveElement
  <1>5. ASSUME NEW S \in SUBSET Worker, NEW w \in Worker
        PROVE  Cardinality(S \cup {w}) <= Cardinality(S) + 1
    BY <1>2, FS_AddElement
  <1> QED
    BY <1>1, <1>2, <1>3, <1>4, <1>5

(* Nobody gains a turn unless a fault gives it back, and whoever delivers  *)
(* an event loses one.                                                     *)
LEMMA TurnsStayCounted ==
  ASSUME TypeOK, TypeOK', TurnsCounted,
         \A e \in Event :
           \/ Turns(e)' \subseteq Turns(e) /\ delivered'[e] = delivered[e] /\ faults' >= faults
           \/ /\ faults' = faults /\ delivered'[e] = delivered[e] + 1
              /\ \E w \in Turns(e) : Turns(e)' \subseteq Turns(e) \ {w}
           \/ /\ faults' = faults + 1 /\ delivered'[e] = delivered[e]
              /\ \E w \in Worker : Turns(e)' \subseteq Turns(e) \cup {w}
  PROVE  TurnsCounted'
  <1> SUFFICES ASSUME NEW e \in Event
               PROVE  delivered'[e] + Cardinality(Turns(e)') <= Cardinality(Worker) + faults'
    BY DEF TurnsCounted
  <1>1. /\ Turns(e) \in SUBSET Worker /\ Turns(e)' \in SUBSET Worker
        /\ delivered[e] \in Nat /\ delivered'[e] \in Nat /\ faults \in Nat /\ faults' \in Nat
    BY OutboxAssumption DEF TypeOK, Turns
  <1>2. delivered[e] + Cardinality(Turns(e)) <= Cardinality(Worker) + faults
    BY DEF TurnsCounted
  <1> DEFINE S == Turns(e)
             T == Turns(e)'
  <1>3. /\ S \in SUBSET Worker /\ T \in SUBSET Worker
        /\ Cardinality(S) \in Nat /\ Cardinality(T) \in Nat /\ Cardinality(Worker) \in Nat
    BY <1>1, TurnsAreFew
  <1>4. CASE T \subseteq S /\ delivered'[e] = delivered[e] /\ faults' >= faults
    <2>1. Cardinality(T) <= Cardinality(S)
      BY <1>3, <1>4, TurnsAreFew
    <2> QED
      BY <1>1, <1>2, <1>3, <1>4, <2>1
  <1>5. ASSUME faults' = faults, delivered'[e] = delivered[e] + 1,
               NEW w \in S, T \subseteq S \ {w}
        PROVE  delivered'[e] + Cardinality(T) <= Cardinality(Worker) + faults'
    <2>1. S \ {w} \in SUBSET Worker /\ Cardinality(S \ {w}) = Cardinality(S) - 1
      BY <1>3, TurnsAreFew
    <2>2. Cardinality(T) <= Cardinality(S \ {w})
      BY <1>5, <2>1, TurnsAreFew
    <2> QED
      BY <1>1, <1>2, <1>3, <1>5, <2>1, <2>2
  <1>6. ASSUME faults' = faults + 1, delivered'[e] = delivered[e],
               NEW w \in Worker, T \subseteq S \cup {w}
        PROVE  delivered'[e] + Cardinality(T) <= Cardinality(Worker) + faults'
    <2>1. S \cup {w} \in SUBSET Worker /\ Cardinality(S \cup {w}) <= Cardinality(S) + 1
      BY <1>3, TurnsAreFew
    <2>2. Cardinality(T) <= Cardinality(S \cup {w}) /\ Cardinality(S \cup {w}) \in Nat
      BY <1>6, <2>1, TurnsAreFew
    <2> QED
      BY <1>1, <1>2, <1>3, <1>6, <2>1, <2>2
  <1> QED
    BY <1>4, <1>5, <1>6

(* What is left of a batch: its events but the first, in their order.      *)
LEMMA RestIsTail ==
  ASSUME NEW q \in Seq(Event), q # << >>,
         \A i, j \in 1..Len(q) : i < j => q[i] < q[j]
  PROVE  LET rest == Loop(Tail(q)) IN
         /\ \A i, j \in 1..Len(rest.batch) : i < j => rest.batch[i] < rest.batch[j]
         /\ \A e : rest.pc # "sleep" /\ (\E i \in 1..Len(rest.batch) : rest.batch[i] = e)
                   => \E i \in 1..Len(q) : i > 1 /\ q[i] = e
         /\ rest.pc \in {"sleep", "publish"}
  <1>1. /\ Tail(q) \in Seq(Event) /\ Len(q) \in Nat /\ Len(Tail(q)) = Len(q) - 1
        /\ \A i \in 1..Len(Tail(q)) : Tail(q)[i] = q[i + 1]
    BY HeadTailProperties
  <1>2. CASE Tail(q) = << >>
    BY <1>2 DEF Loop, Sleeping
  <1>3. CASE Tail(q) # << >>
    <2> DEFINE b == Tail(q)
    <2>1. Loop(b).batch = b /\ Loop(b).pc = "publish"
      BY <1>3 DEF Loop
    <2>2. \A i \in 1..Len(b) : i + 1 \in 1..Len(q) /\ i + 1 > 1 /\ b[i] = q[i + 1]
      BY <1>1
    <2>3. \A i, j \in 1..Len(b) : i < j => b[i] < b[j]
      <3> SUFFICES ASSUME NEW i \in 1..Len(b), NEW j \in 1..Len(b), i < j
                   PROVE  b[i] < b[j]
        OBVIOUS
      <3>1. i + 1 \in 1..Len(q) /\ j + 1 \in 1..Len(q) /\ i + 1 < j + 1
        BY <2>2, <1>1
      <3> QED
        BY <2>2, <3>1
    <2> QED
      BY <2>1, <2>2, <2>3
  <1> QED
    BY <1>2, <1>3

(* Another worker's turn only depends on its own batch and on what is      *)
(* published.                                                              *)
LEMMA OthersKeepTurns ==
  ASSUME NEW w \in Worker, NEW e, published \subseteq published',
         \A v \in Worker \ {w} : worker'[v] = worker[v]
  PROVE  /\ Turns(e)' \subseteq Turns(e) \cup {w}
         /\ (w \in Turns(e)' => w \in Turns(e)) => Turns(e)' \subseteq Turns(e)
         /\ w \notin Turns(e)' => Turns(e)' \subseteq Turns(e) \ {w}
  BY DEF Turns, Used, Ahead

LEMMA BatchesStayIncreasing ==
  ASSUME TypeOK, BatchesIncrease, NEW w \in Worker, NEW r,
         worker' = [worker EXCEPT ![w] = r],
         \A i, j \in 1..Len(r.batch) : i < j => r.batch[i] < r.batch[j]
  PROVE  BatchesIncrease'
  BY DEF TypeOK, BatchesIncrease

LEMMA TurnsInductive == IInv /\ BatchesIncrease /\ TurnsCounted /\ [Next]_vars
                          => BatchesIncrease' /\ TurnsCounted'
  <1> SUFFICES ASSUME IInv, BatchesIncrease, TurnsCounted, [Next]_vars
               PROVE  BatchesIncrease' /\ TurnsCounted'
    OBVIOUS
  <1>t. TypeOK /\ HandInv /\ TypeOK'
    BY Inductive DEF IInv
  <1>1. ASSUME NEW e \in Event, CommitEvent(e) PROVE BatchesIncrease' /\ TurnsCounted'
    BY <1>1 DEF CommitEvent, BatchesIncrease, TurnsCounted, Turns, Used, Ahead
  <1>2. ASSUME NEW w \in Worker, Poll(w) PROVE BatchesIncrease' /\ TurnsCounted'
    <2>1. PICK q \in Batches(Pending) : worker' = [worker EXCEPT ![w] = Loop(q)]
      BY <1>2 DEF Poll
    <2>2. worker[w].pc = "sleep" /\ UNCHANGED <<committed, published, delivered, faults>>
      BY <1>2 DEF Poll
    <2>3. q \in Seq(Pending) /\ \A i, j \in 1..Len(q) : i < j => q[i] < q[j]
      <3> DEFINE n == IF Cardinality(Pending) < BatchSize THEN Cardinality(Pending) ELSE BatchSize
      <3>1. IsFiniteSet(Pending) /\ Cardinality(Pending) \in Nat
        BY <1>t, OutboxAssumption, FS_Subset, FS_CardinalityType DEF Pending, TypeOK
      <3>2. n \in Nat
        BY <3>1, OutboxAssumption
      <3>3. q \in [1..n -> Pending] /\ \A i, j \in 1..n : i < j => q[i] < q[j]
        BY DEF Batches
      <3> QED
        BY <3>2, <3>3
    <2>4. /\ Loop(q).pc \in {"sleep", "publish"}
          /\ Loop(q).pc # "sleep" => Loop(q).batch = q
          /\ Loop(q).batch \in {q, << >>}
      BY DEF Loop, Sleeping
    <2>5. BatchesIncrease'
      <3>1. \A i, j \in 1..Len(Loop(q).batch) : i < j => Loop(q).batch[i] < Loop(q).batch[j]
        BY <2>3, <2>4
      <3> QED
        BY <1>t, <2>1, <3>1, BatchesStayIncreasing
    <2>6. ASSUME NEW e \in Event PROVE Turns(e)' \subseteq Turns(e)
      <3>1. worker'[w] = Loop(q) /\ \A v \in Worker \ {w} : worker'[v] = worker[v]
        BY <1>t, <2>1 DEF TypeOK
      <3>2. Ahead(w, e)' => e \notin published
        BY <2>3, <2>4, <3>1 DEF Ahead, Pending
      <3>3. w \in Turns(e)' => w \in Turns(e)
        BY <2>2, <2>4, <3>1, <3>2 DEF Turns, Used
      <3> QED
        BY <2>2, <3>1, <3>3, OthersKeepTurns
    <2>7. \A e \in Event : delivered'[e] = delivered[e] /\ faults' >= faults
      BY <1>t, <2>2, OutboxAssumption DEF TypeOK
    <2> QED
      BY <1>t, <2>5, <2>6, <2>7, TurnsStayCounted
  <1>3. ASSUME NEW w \in Worker, PublishOk(w) PROVE BatchesIncrease' /\ TurnsCounted'
    <2>1. /\ worker[w] \in WorkerState /\ worker[w].batch \in Seq(Event) /\ worker[w].batch # << >>
          /\ worker[w].pc = "publish"
      BY <1>t, <1>3 DEF PublishOk, TypeOK, HandInv, WorkerState
    <2>2. PICK e \in Event : e = Head(worker[w].batch) /\ e = worker[w].batch[1]
                             /\ 1 \in 1..Len(worker[w].batch)
      BY <2>1, EmptySeq, SMT
    <2>3. /\ delivered' = [delivered EXCEPT ![e] = @ + 1]
          /\ worker' = [worker EXCEPT ![w].pc = "mark"]
          /\ UNCHANGED <<committed, published, faults>>
      BY <1>3, <2>2 DEF PublishOk
    <2>4. /\ worker'[w].pc = "mark" /\ worker'[w].batch = worker[w].batch
          /\ \A v \in Worker \ {w} : worker'[v] = worker[v]
      BY <1>t, <2>1, <2>3 DEF TypeOK, WorkerState
    <2>5. BatchesIncrease'
      BY <2>4 DEF BatchesIncrease
    <2>6. w \in Turns(e) /\ w \notin Turns(e)'
      BY <2>1, <2>2, <2>4 DEF Turns, Used, Ahead
    <2>7. Turns(e)' \subseteq Turns(e) \ {w} /\ delivered'[e] = delivered[e] + 1 /\ faults' = faults
      BY <1>t, <2>2, <2>3, <2>4, <2>6, OthersKeepTurns DEF TypeOK
    <2>8. ASSUME NEW x \in Event, x # e
          PROVE  Turns(x)' \subseteq Turns(x) /\ delivered'[x] = delivered[x] /\ faults' >= faults
      <3>1. w \in Turns(x)' => w \in Turns(x)
        BY <2>1, <2>3, <2>4 DEF Turns, Used, Ahead
      <3>2. delivered'[x] = delivered[x] /\ faults' >= faults
        BY <1>t, <2>3, <2>8, OutboxAssumption DEF TypeOK
      <3> QED
        BY <2>3, <2>4, <3>1, <3>2, OthersKeepTurns
    <2> QED
      BY <1>t, <2>5, <2>6, <2>7, <2>8, TurnsStayCounted
  <1>4. ASSUME NEW w \in Worker, PublishFails(w) PROVE BatchesIncrease' /\ TurnsCounted'
    <2>1. /\ worker[w].pc = "publish" /\ worker[w] \in WorkerState
          /\ worker' = [worker EXCEPT ![w].pc = "mark_failed"]
          /\ UNCHANGED <<committed, published, delivered, faults>>
      BY <1>t, <1>4 DEF PublishFails, TypeOK, WorkerState
    <2>2. /\ worker'[w].pc = "mark_failed" /\ worker'[w].batch = worker[w].batch
          /\ \A v \in Worker \ {w} : worker'[v] = worker[v]
      BY <1>t, <2>1 DEF TypeOK, WorkerState
    <2>3. BatchesIncrease'
      BY <2>2 DEF BatchesIncrease
    <2>4. ASSUME NEW e \in Event PROVE Turns(e)' \subseteq Turns(e)
      <3>1. w \in Turns(e)' => w \in Turns(e)
        BY <2>1, <2>2 DEF Turns, Used, Ahead
      <3> QED
        BY <2>1, <2>2, <3>1, OthersKeepTurns
    <2>5. \A e \in Event : delivered'[e] = delivered[e] /\ faults' >= faults
      BY <1>t, <2>1, OutboxAssumption DEF TypeOK
    <2> QED
      BY <1>t, <2>3, <2>4, <2>5, TurnsStayCounted
  <1>5. ASSUME NEW w \in Worker, MarkPublished(w) \/ MarkFailed(w)
        PROVE  BatchesIncrease' /\ TurnsCounted'
    <2> DEFINE q == worker[w].batch
               rest == Loop(Tail(q))
    <2>1. /\ q \in Seq(Event) /\ q # << >>
          /\ \A i, j \in 1..Len(q) : i < j => q[i] < q[j]
          /\ worker[w].pc \in {"mark", "mark_failed"}
      BY <1>t, <1>5 DEF MarkPublished, MarkFailed, TypeOK, HandInv, BatchesIncrease
    <2>2. /\ \A i, j \in 1..Len(rest.batch) : i < j => rest.batch[i] < rest.batch[j]
          /\ \A e : rest.pc # "sleep" /\ (\E i \in 1..Len(rest.batch) : rest.batch[i] = e)
                    => \E i \in 1..Len(q) : i > 1 /\ q[i] = e
          /\ rest.pc \in {"sleep", "publish"}
      BY <2>1, RestIsTail
    <2>3. /\ worker' = [worker EXCEPT ![w] = rest]
          /\ UNCHANGED <<committed, delivered, faults>>
          /\ \/ worker[w].pc = "mark" /\ published' = published \cup {q[1]}
             \/ worker[w].pc = "mark_failed" /\ published' = published
      BY <1>5, <2>1, EmptySeq DEF MarkPublished, MarkFailed
    <2> HIDE DEF rest
    <2>4. BatchesIncrease'
      BY <1>t, <2>2, <2>3, BatchesStayIncreasing
    <2>5. worker'[w] = rest /\ \A v \in Worker \ {w} : worker'[v] = worker[v]
      BY <1>t, <2>3 DEF TypeOK
    <2>6. ASSUME NEW e \in Event PROVE Turns(e)' \subseteq Turns(e)
      <3>1. Ahead(w, e)' => \E i \in 1..Len(q) : i > 1 /\ q[i] = e
        BY <2>2, <2>5 DEF Ahead
      <3>2. Ahead(w, e)' => Ahead(w, e) /\ q[1] # e
        <4> SUFFICES ASSUME Ahead(w, e)' PROVE Ahead(w, e) /\ q[1] # e
          OBVIOUS
        <4>1. PICK i \in 1..Len(q) : i > 1 /\ q[i] = e
          BY <3>1
        <4>2. 1 \in 1..Len(q) /\ 1 < i
          BY <2>1, <4>1
        <4>3. q[1] < q[i] /\ q[i] \in Nat /\ q[1] \in Nat
          BY <2>1, <4>1, <4>2, OutboxAssumption
        <4> QED
          BY <2>1, <4>1, <4>3 DEF Ahead
      <3>3. w \in Turns(e)' => w \in Turns(e)
        BY <2>1, <2>3, <3>2 DEF Turns, Used
      <3> QED
        BY <2>3, <2>5, <3>3, OthersKeepTurns
    <2>7. \A e \in Event : delivered'[e] = delivered[e] /\ faults' >= faults
      BY <1>t, <2>3, OutboxAssumption DEF TypeOK
    <2> QED
      BY <1>t, <2>4, <2>6, <2>7, TurnsStayCounted
  <1>6. ASSUME NEW w \in Worker, Interrupted(w) PROVE BatchesIncrease' /\ TurnsCounted'
    <2>1. /\ worker' = [worker EXCEPT ![w] = Sleeping] /\ faults' = faults + 1
          /\ UNCHANGED <<committed, published, delivered>>
      BY <1>6 DEF Interrupted
    <2>2. BatchesIncrease'
      <3>1. \A i, j \in 1..Len(Sleeping.batch) : i < j => Sleeping.batch[i] < Sleeping.batch[j]
        BY DEF Sleeping
      <3> QED
        BY <1>t, <2>1, <3>1, BatchesStayIncreasing
    <2>3. \A v \in Worker \ {w} : worker'[v] = worker[v]
      BY <1>t, <2>1 DEF TypeOK
    <2>4. \A e \in Event : Turns(e)' \subseteq Turns(e) \cup {w}
      BY <2>1, <2>3, OthersKeepTurns
    <2> QED
      BY <1>t, <2>1, <2>2, <2>4, TurnsStayCounted
  <1>7. CASE UNCHANGED vars
    BY <1>7 DEF vars, BatchesIncrease, TurnsCounted, Turns, Used, Ahead
  <1> QED
    BY <1>1, <1>2, <1>3, <1>4, <1>5, <1>6, <1>7 DEF Next, Drain

(* An event is delivered once per worker at most, and once more per fault, *)
(* however polls, deliveries and marks of the workers interleave.          *)
THEOREM DuplicatesAreBounded == Spec => []DuplicatesBounded
  <1>1. Init => IInv /\ BatchesIncrease /\ TurnsCounted
    <2> SUFFICES ASSUME Init PROVE IInv /\ BatchesIncrease /\ TurnsCounted
      OBVIOUS
    <2>1. IInv
      BY OutboxAssumption
      DEF Init, IInv, TypeOK, HandInv, PublishedWasDelivered, Sleeping
    <2>2. BatchesIncrease
      BY DEF Init, BatchesIncrease, Sleeping
    <2>3. ASSUME NEW e \in Event
          PROVE  delivered[e] + Cardinality(Turns(e)) <= Cardinality(Worker) + faults
      <3>1. delivered[e] = 0 /\ faults = 0 /\ Turns(e) \in SUBSET Worker
        BY DEF Init, Turns
      <3> QED
        BY <3>1, TurnsAreFew
    <2> QED
      BY <2>1, <2>2, <2>3 DEF TurnsCounted
  <1>2. IInv /\ TurnsCounted => DuplicatesBounded
    <2> SUFFICES ASSUME IInv, TurnsCounted, NEW e \in Event
                 PROVE  delivered[e] <= Cardinality(Worker) + faults
      BY DEF DuplicatesBounded
    <2>1. delivered[e] \in Nat /\ faults \in Nat /\ Turns(e) \in SUBSET Worker
      BY OutboxAssumption DEF IInv, TypeOK, Turns
    <2>2. Cardinality(Turns(e)) \in Nat /\ Cardinality(Worker) \in Nat
      BY <2>1, TurnsAreFew
    <2> QED
      BY <2>1, <2>2 DEF TurnsCounted
  <1> QED
    BY <1>1, <1>2, Inductive, TurnsInductive, PTL DEF Spec
=============================================================================
