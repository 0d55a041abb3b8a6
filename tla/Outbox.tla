--------------------------------- MODULE Outbox ---------------------------------
(***************************************************************************)
(* The outbox workers of Marketplace and Messaging.  A worker polls a      *)
(* batch of unpublished events, hands each to the publisher, and marks it  *)
(* only after the publisher took it.  Nothing claims an event: a second    *)
(* worker may hold it too, and a fault between publishing and marking      *)
(* makes it pending again.                                                 *)
(***************************************************************************)
EXTENDS Naturals, Sequences, FiniteSets

CONSTANTS
  Event,      \* event numbers, in the order of (occurred_at, event_id)
  Poison,     \* events the publisher always refuses
  Worker,     \* worker processes
  BatchSize,  \* OUTBOX_BATCH_SIZE
  MaxFaults   \* bound on crashes and failed marks

ASSUME OutboxAssumption ==
  /\ Event \subseteq Nat /\ IsFiniteSet(Event) /\ Poison \subseteq Event
  /\ BatchSize \in Nat \ {0}
  /\ IsFiniteSet(Worker) /\ MaxFaults \in Nat

VARIABLES
  committed,  \* events in the table
  published,  \* events with published_at
  delivered,  \* how often the publisher took each event
  worker,     \* progress of each worker through its batch
  faults      \* crashes and failed marks so far

vars == <<committed, published, delivered, worker, faults>>

Pending == committed \ published

Sleeping == [pc |-> "sleep", batch |-> << >>]

Loop(batch) ==
  IF batch = << >> THEN Sleeping ELSE [pc |-> "publish", batch |-> batch]

Init ==
  /\ committed = {}
  /\ published = {}
  /\ delivered = [e \in Event |-> 0]
  /\ worker = [w \in Worker |-> Sleeping]
  /\ faults = 0

-----------------------------------------------------------------------------
(* A command commits an event.  Its occurred_at was read before the command *)
(* waited for its locks, so an event may appear below older ones.          *)
CommitEvent(e) ==
  /\ e \notin committed
  /\ committed' = committed \cup {e}
  /\ UNCHANGED <<published, delivered, worker, faults>>

(* SELECT ... ORDER BY occurred_at, event_id LIMIT batchSize. *)
Batches(S) ==
  LET n == IF Cardinality(S) < BatchSize THEN Cardinality(S) ELSE BatchSize
  IN  {q \in [1..n -> S] :
         /\ \A i, j \in 1..n : i < j => q[i] < q[j]
         /\ \A e \in S : (\E i \in 1..n : q[i] = e) \/ (\A i \in 1..n : q[i] < e)}

Poll(w) ==
  /\ worker[w].pc = "sleep"
  /\ Pending # {}
  /\ \E q \in Batches(Pending) : worker' = [worker EXCEPT ![w] = Loop(q)]
  /\ UNCHANGED <<committed, published, delivered, faults>>

PublishOk(w) ==
  LET e == Head(worker[w].batch) IN
  /\ worker[w].pc = "publish"
  /\ e \notin Poison
  /\ delivered' = [delivered EXCEPT ![e] = @ + 1]
  /\ worker' = [worker EXCEPT ![w].pc = "mark"]
  /\ UNCHANGED <<committed, published, faults>>

PublishFails(w) ==
  /\ worker[w].pc = "publish"
  /\ worker' = [worker EXCEPT ![w].pc = "mark_failed"]
  /\ UNCHANGED <<committed, published, delivered, faults>>

(* Mutant: the mark does not reach the table. *)
MarkLost(w) ==
  /\ worker[w].pc = "mark"
  /\ worker' = [worker EXCEPT ![w] = Loop(Tail(@.batch))]
  /\ UNCHANGED <<committed, published, delivered, faults>>

(* Mutant: a refused event is marked as well. *)
MarkWhateverHappened(w) ==
  /\ worker[w].pc \in {"mark", "mark_failed"}
  /\ published' = published \cup {Head(worker[w].batch)}
  /\ worker' = [worker EXCEPT ![w] = Loop(Tail(@.batch))]
  /\ UNCHANGED <<committed, delivered, faults>>

MarkPublished(w) ==
  /\ worker[w].pc = "mark"
  /\ published' = published \cup {Head(worker[w].batch)}
  /\ worker' = [worker EXCEPT ![w] = Loop(Tail(@.batch))]
  /\ UNCHANGED <<committed, delivered, faults>>

(* Mutant: a refused event ends the batch. *)
FailureEndsBatch(w) ==
  /\ worker[w].pc = "mark_failed"
  /\ worker' = [worker EXCEPT ![w] = Sleeping]
  /\ UNCHANGED <<committed, published, delivered, faults>>

(* attempts and last_error are for the operator: the event stays pending.  *)
MarkFailed(w) ==
  /\ worker[w].pc = "mark_failed"
  /\ worker' = [worker EXCEPT ![w] = Loop(Tail(@.batch))]
  /\ UNCHANGED <<committed, published, delivered, faults>>

(* The process dies, or a mark fails and DrainOnce returns: the rest of    *)
(* the batch is forgotten and the worker polls again.                      *)
Interrupted(w) ==
  /\ worker[w].pc # "sleep"
  /\ faults < MaxFaults
  /\ faults' = faults + 1
  /\ worker' = [worker EXCEPT ![w] = Sleeping]
  /\ UNCHANGED <<committed, published, delivered>>

-----------------------------------------------------------------------------
Drain(w) ==
  \/ Poll(w) \/ PublishOk(w) \/ PublishFails(w) \/ MarkPublished(w) \/ MarkFailed(w)

Next ==
  \/ \E e \in Event : CommitEvent(e)
  \/ \E w \in Worker : Drain(w) \/ Interrupted(w)

Spec == Init /\ [][Next]_vars

(* Workers keep polling, the publisher and the database answer, and an     *)
(* event that is not refused for good is taken after finitely many tries.  *)
FairSpec ==
  /\ Spec
  /\ \A w \in Worker :
       /\ WF_vars(Drain(w))
       /\ \A e \in Event :
            SF_vars(PublishOk(w) /\ e = Head(worker[w].batch))

-----------------------------------------------------------------------------
(* Properties. *)

TypeOK ==
  /\ committed \subseteq Event
  /\ published \subseteq committed
  /\ delivered \in [Event -> Nat]
  /\ worker \in [Worker -> [pc : {"sleep", "publish", "mark", "mark_failed"},
                            batch : Seq(Event)]]
  /\ faults \in 0..MaxFaults

(* No event is lost: whatever is marked published reached the publisher,   *)
(* whatever crashed in between, however many workers share the table.      *)
PublishedWasDelivered == \A e \in published : delivered[e] > 0

(* Duplicates are bounded: workers that share the table deliver an event   *)
(* once each at most, plus once per fault, so the one worker that is       *)
(* deployed only repeats an event after a crash or a failed mark.          *)
DuplicatesBounded ==
  \A e \in Event : delivered[e] <= Cardinality(Worker) + faults

(* Undeliverable events hold nobody up for good while they are fewer than  *)
(* a batch: every deliverable event is published in the end.  (BatchSize   *)
(* of them would: Pending always returns the oldest, whatever attempts is.) *)
EventuallyPublished ==
  Cardinality(Poison) < BatchSize =>
    \A e \in Event \ Poison : (e \in committed) ~> (e \in published)
=============================================================================
