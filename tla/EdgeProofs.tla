------------------------------ MODULE EdgeProofs ------------------------------
(***************************************************************************)
(* TLAPS proofs about the rate limiter of Edge, for any clients, budgets,  *)
(* windows, clock readings and bound on the table, and about the times of  *)
(* tokens, for any lifetime and difference of the clocks.                  *)
(***************************************************************************)
EXTENDS Edge, FiniteSetTheorems, TLAPS

(* A request that waits for the limiter belongs to a class with a budget.  *)
WaitingIsLimited ==
  /\ slot = [s \in Slot |-> slot[s]]
  /\ \A s \in Slot : Waiting(s) => LimitOf[slot[s].key.rule] \in Nat \ {0}

TableInv ==
  /\ WaitingIsLimited
  /\ entries = [k \in DOMAIN entries |-> entries[k]]
  /\ IsFiniteSet(DOMAIN entries)
  /\ TableBounded

LEMMA RuleHasBudget ==
  ASSUME NEW r, Limited(r)
  PROVE  LimitOf[RuleOf(r.ep)] \in Nat \ {0}
  <1>1. RuleOf(r.ep) \in {"register", "login", "message", "upload", "trade", "none"}
    BY DEF RuleOf
  <1> QED
    BY <1>1, LimitAssumption DEF Limited

(* A sweep only takes entries out. *)
LEMMA SweptShrinks ==
  ASSUME NEW t, IsFiniteSet(DOMAIN entries)
  PROVE  /\ DOMAIN Swept(t) \subseteq DOMAIN entries
         /\ IsFiniteSet(DOMAIN Swept(t))
         /\ Cardinality(DOMAIN Swept(t)) \in Nat
         /\ Cardinality(DOMAIN Swept(t)) <= Cardinality(DOMAIN entries)
         /\ \A k \in DOMAIN Swept(t) : Swept(t)[k] = entries[k]
  <1>1. /\ DOMAIN Swept(t) \subseteq DOMAIN entries
        /\ \A k \in DOMAIN Swept(t) : Swept(t)[k] = entries[k]
    <2>1. CASE PruneDue(t)
      <3> DEFINE alive == {k \in DOMAIN entries : ~Expired(entries[k], t)}
      <3>1. Swept(t) = [k \in alive |-> entries[k]]
        BY <2>1 DEF Swept
      <3> QED
        BY <3>1
    <2>2. CASE ~PruneDue(t)
      BY <2>2 DEF Swept
    <2> QED
      BY <2>1, <2>2
  <1>2. /\ IsFiniteSet(DOMAIN Swept(t))
        /\ Cardinality(DOMAIN Swept(t)) <= Cardinality(DOMAIN entries)
    BY <1>1, FS_Subset
  <1> QED
    BY <1>1, <1>2, FS_CardinalityType

LEMMA SweptIsFunction ==
  ASSUME NEW t, entries = [k \in DOMAIN entries |-> entries[k]]
  PROVE  Swept(t) = [k \in DOMAIN Swept(t) |-> Swept(t)[k]]
  <1>1. CASE PruneDue(t)
    BY <1>1 DEF Swept
  <1>2. CASE ~PruneDue(t)
    BY <1>2 DEF Swept
  <1> QED
    BY <1>1, <1>2

(* A client that is let in takes one place at most, and one of its budget. *)
LEMMA AdmitKeepsTable ==
  ASSUME TableInv, NEW s \in Slot, Admit(s)
  PROVE  TableInv'
  <1> DEFINE k == slot[s].key
             t == slot[s].at
             spent == [EntryOf(k, t) EXCEPT !.count = @ + 1]
  <1>1. LimitOf[k.rule] \in Nat \ {0}
    BY DEF Admit, TableInv, WaitingIsLimited
  <1>2. /\ DOMAIN Swept(t) \subseteq DOMAIN entries
        /\ IsFiniteSet(DOMAIN Swept(t))
        /\ Cardinality(DOMAIN Swept(t)) \in Nat
        /\ Cardinality(DOMAIN Swept(t)) <= Cardinality(DOMAIN entries)
        /\ \A x \in DOMAIN Swept(t) : Swept(t)[x] = entries[x]
    BY SweptShrinks DEF TableInv
  <1>3. \A x \in DOMAIN Swept(t) : Swept(t)[x].count \in 1..LimitOf[x.rule]
    BY <1>2 DEF TableInv, TableBounded
  <1>4. /\ entries' = [x \in DOMAIN Swept(t) \cup {k} |-> IF x = k THEN spent ELSE Swept(t)[x]]
        /\ ~Full(k, t) /\ ~Spent(k, t)
    BY DEF Admit
  <1>5. spent.count \in 1..LimitOf[k.rule]
    <2>1. EntryOf(k, t).count \in 0..LimitOf[k.rule] /\ EntryOf(k, t).count < LimitOf[k.rule]
      <3>1. CASE Known(k, t)
        BY <1>1, <1>3, <1>4, <3>1 DEF EntryOf, Known, Spent
      <3>2. CASE ~Known(k, t)
        BY <1>1, <3>2 DEF EntryOf
      <3> QED
        BY <3>1, <3>2
    <2>2. spent.count = EntryOf(k, t).count + 1
      BY <1>4 DEF EntryOf
    <2> QED
      BY <1>1, <2>1, <2>2
  <1> HIDE DEF spent
  <1>6. DOMAIN entries' = DOMAIN Swept(t) \cup {k}
    BY <1>4
  <1>7. /\ IsFiniteSet(DOMAIN entries')
        /\ Cardinality(DOMAIN entries') <= MaxKeys
    <2>1. CASE k \in DOMAIN Swept(t)
      <3>1. DOMAIN entries' = DOMAIN Swept(t)
        BY <1>6, <2>1
      <3> QED
        BY <1>2, <3>1, FS_CardinalityType, LimitAssumption DEF TableInv, TableBounded
    <2>2. CASE k \notin DOMAIN Swept(t)
      <3>1. Cardinality(DOMAIN Swept(t)) < MaxKeys
        BY <1>2, <1>4, <2>2, LimitAssumption DEF Full, Known
      <3>2. /\ IsFiniteSet(DOMAIN entries')
            /\ Cardinality(DOMAIN entries') = Cardinality(DOMAIN Swept(t)) + 1
        BY <1>2, <1>6, <2>2, FS_AddElement
      <3> QED
        BY <1>2, <3>1, <3>2, LimitAssumption
    <2> QED
      BY <2>1, <2>2
  <1>8. \A x \in DOMAIN entries' : entries'[x].count \in 1..LimitOf[x.rule]
    BY <1>3, <1>4, <1>5, <1>6
  <1>9. WaitingIsLimited'
    BY DEF Admit, TableInv, WaitingIsLimited, Waiting
  <1>10. entries' = [x \in DOMAIN entries' |-> entries'[x]]
    BY <1>4
  <1> QED
    BY <1>7, <1>8, <1>9, <1>10 DEF TableInv, TableBounded

LEMMA RefusalKeepsTable ==
  ASSUME TableInv, NEW s \in Slot, NEW remaining, NEW why, Refusal(s, remaining, why)
  PROVE  TableInv'
  <1> DEFINE t == slot[s].at
  <1>1. entries' = Swept(t)
    BY DEF Refusal
  <1>2. /\ DOMAIN entries' \subseteq DOMAIN entries
        /\ IsFiniteSet(DOMAIN entries')
        /\ Cardinality(DOMAIN entries') \in Nat
        /\ Cardinality(DOMAIN entries') <= Cardinality(DOMAIN entries)
        /\ \A k \in DOMAIN entries' : entries'[k] = entries[k]
    BY <1>1, SweptShrinks DEF TableInv
  <1>3. Cardinality(DOMAIN entries) \in Nat
    BY FS_CardinalityType DEF TableInv
  <1>4. TableBounded'
    BY <1>2, <1>3, LimitAssumption DEF TableInv, TableBounded
  <1>5. entries' = [k \in DOMAIN entries' |-> entries'[k]]
    BY <1>1, SweptIsFunction DEF TableInv
  <1>6. WaitingIsLimited'
    BY DEF Refusal, TableInv, WaitingIsLimited, Waiting
  <1> QED
    BY <1>2, <1>4, <1>5, <1>6 DEF TableInv

LEMMA TableBegins == Init => TableInv
  <1> SUFFICES ASSUME Init PROVE TableInv
    OBVIOUS
  <1>1. DOMAIN entries = {}
    BY DEF Init
  <1>2. IsFiniteSet(DOMAIN entries) /\ Cardinality(DOMAIN entries) = 0
    BY <1>1, FS_EmptySet
  <1>3. WaitingIsLimited
    BY DEF Init, WaitingIsLimited, Waiting, Idle
  <1> QED
    BY <1>1, <1>2, <1>3, LimitAssumption DEF Init, TableInv, TableBounded

LEMMA TableKept == TableInv /\ [Next]_vars => TableInv'
  <1> SUFFICES ASSUME TableInv, [Next]_vars PROVE TableInv'
    OBVIOUS
  <1>1. ASSUME NEW s \in Slot, NEW r \in Request, Arrive(s, r)
        PROVE  TableInv'
    <2>1. WaitingIsLimited'
      BY <1>1, RuleHasBudget DEF Arrive, TableInv, WaitingIsLimited, Waiting, KeyOf
    <2> QED
      BY <1>1, <2>1 DEF Arrive, TableInv, TableBounded
  <1>2. ASSUME NEW s \in Slot, Admit(s)
        PROVE  TableInv'
    BY <1>2, AdmitKeepsTable
  <1>3. ASSUME NEW s \in Slot, RefuseNewClient(s) \/ RefuseSpent(s)
        PROVE  TableInv'
    BY <1>3, RefusalKeepsTable DEF RefuseNewClient, RefuseSpent
  <1>4. ASSUME NEW s \in Slot, NEW status, Answer(s, status), UNCHANGED entries
        PROVE  TableInv'
    <2>1. WaitingIsLimited'
      BY <1>4 DEF Answer, TableInv, WaitingIsLimited, Waiting
    <2> QED
      BY <1>4, <2>1 DEF TableInv, TableBounded
  <1>5. ASSUME NEW s \in Slot, TooLarge(s) \/ Malformed(s) \/ Handle(s)
        PROVE  TableInv'
    BY <1>4, <1>5 DEF TooLarge, Malformed, Handle
  <1>6. CASE Tick \/ UNCHANGED vars
    BY <1>6 DEF Tick, vars, TableInv, TableBounded, WaitingIsLimited, Waiting
  <1> QED
    BY <1>1, <1>2, <1>3, <1>5, <1>6 DEF Next

(* However many clients come, in whatever order their clock readings reach *)
(* the limiter, its table never holds more than MaxKeys of them and no     *)
(* window counts more requests than its budget.                            *)
THEOREM LimiterBounded == Spec => []TableBounded
  <1>1. TableInv => TableBounded
    BY DEF TableInv
  <1> QED
    BY TableBegins, TableKept, <1>1, PTL DEF Spec

-----------------------------------------------------------------------------
(* Readings and windows.  A client's admissions fall into windows; C is    *)
(* those of the present one.                                               *)

Of(A, k, from) == {a \in A : a.key = k /\ a.at >= from}
Reach(A, k, from) == {a \in Of(A, k, from) : a.at <= from + Window - 3 * Delay}

Readings(A) == IsFiniteSet(A) /\ \A a \in A : a.at \in Nat

(* Of the admissions before the present window, only those of the window   *)
(* before it are so recent that a period can contain them and new ones.    *)
InWindow(A, k, start, count, C) ==
  /\ C \subseteq Of(A, k, start - Delay)
  /\ Cardinality(C) <= count
  /\ \A a \in C : a.at < start + Window
  /\ \A a \in Of(A, k, 0) \ C : a.at < start + Delay
  /\ Cardinality(Of(A, k, start + 2 * Delay - Window) \ C) <= LimitOf[k.rule]

(* The windows of a client have ended before u. *)
Ended(A, k, u) ==
  /\ \A a \in Of(A, k, 0) : a.at < u
  /\ Cardinality(Of(A, k, u + Delay - Window)) <= LimitOf[k.rule]

LEMMA Sizes ==
  ASSUME NEW A, NEW B, IsFiniteSet(B), A \subseteq B
  PROVE  /\ IsFiniteSet(A)
         /\ Cardinality(A) \in Nat /\ Cardinality(B) \in Nat
         /\ Cardinality(A) <= Cardinality(B)
  BY FS_Subset, FS_CardinalityType

LEMMA UnionSize ==
  ASSUME NEW A, NEW B, IsFiniteSet(A), IsFiniteSet(B)
  PROVE  /\ IsFiniteSet(A \cup B)
         /\ Cardinality(A \cup B) <= Cardinality(A) + Cardinality(B)
  <1>1. IsFiniteSet(A \cap B) /\ Cardinality(A \cap B) \in Nat
    BY FS_Intersection, FS_CardinalityType
  <1>2. /\ Cardinality(A) \in Nat /\ Cardinality(B) \in Nat
        /\ IsFiniteSet(A \cup B)
        /\ Cardinality(A \cup B) = Cardinality(A) + Cardinality(B) - Cardinality(A \cap B)
    BY FS_Union, FS_CardinalityType
  <1> QED
    BY <1>1, <1>2

LEMMA WindowEnds ==
  ASSUME NEW A, Readings(A), NEW k, LimitOf[k.rule] \in Nat,
         NEW start \in Nat, NEW count \in Nat, count <= LimitOf[k.rule],
         NEW C, InWindow(A, k, start, count, C),
         NEW u \in Nat, u >= start + Window
  PROVE  Ended(A, k, u)
  <1>1. \A a \in Of(A, k, 0) : a.at < u
    <2> SUFFICES ASSUME NEW a \in Of(A, k, 0) PROVE a.at < u
      OBVIOUS
    <2>1. a.at \in Nat
      BY DEF Readings, Of
    <2>2. a.at < start + Window \/ a.at < start + Delay
      BY DEF InWindow
    <2> QED
      BY <2>1, <2>2, LimitAssumption
  <1>2. Of(A, k, u + Delay - Window) \subseteq C
    <2> SUFFICES ASSUME NEW a \in Of(A, k, u + Delay - Window), a \notin C PROVE FALSE
      OBVIOUS
    <2>1. a \in A /\ a.key = k /\ a.at \in Nat /\ a.at >= u + Delay - Window
      BY DEF Readings, Of
    <2>2. a.at < start + Delay
      BY <2>1 DEF InWindow, Of
    <2> QED
      BY <2>1, <2>2, LimitAssumption
  <1>3. IsFiniteSet(C)
    BY Sizes DEF Readings, InWindow, Of
  <1>4. Cardinality(Of(A, k, u + Delay - Window)) <= LimitOf[k.rule]
    <2>1. /\ Cardinality(Of(A, k, u + Delay - Window)) \in Nat
          /\ Cardinality(C) \in Nat
          /\ Cardinality(Of(A, k, u + Delay - Window)) <= Cardinality(C)
      BY <1>2, <1>3, Sizes
    <2>2. Cardinality(C) <= count
      BY DEF InWindow
    <2> QED
      BY <2>1, <2>2
  <1> QED
    BY <1>1, <1>4 DEF Ended

LEMMA WindowBegins ==
  ASSUME NEW A, NEW a, Readings(A \cup {a}), LimitOf[a.key.rule] \in Nat,
         NEW u \in Nat, Ended(A, a.key, u), u <= a.at + Delay
  PROVE  InWindow(A \cup {a}, a.key, a.at, 1, {a})
  <1> DEFINE B == A \cup {a}
             t == a.at
             from == t + 2 * Delay - Window
  <1>1. t \in Nat /\ \A b \in A : b.at \in Nat
    BY DEF Readings
  <1>2. {a} \subseteq Of(B, a.key, t - Delay)
    BY <1>1, LimitAssumption DEF Of
  <1>3. Cardinality({a}) <= 1
    <2>1. Cardinality({a}) = 1
      BY FS_Singleton
    <2> QED
      BY <2>1
  <1>4. t < t + Window
    BY <1>1, LimitAssumption
  <1>5. \A b \in Of(B, a.key, 0) \ {a} : b.at < t + Delay
    <2> SUFFICES ASSUME NEW b \in Of(B, a.key, 0) \ {a} PROVE b.at < t + Delay
      OBVIOUS
    <2>1. b \in Of(A, a.key, 0) /\ b.at \in Nat
      BY <1>1 DEF Of
    <2>2. b.at < u
      BY <2>1 DEF Ended
    <2> QED
      BY <1>1, <2>1, <2>2, LimitAssumption
  <1>6. Of(B, a.key, from) \ {a} \subseteq Of(A, a.key, u + Delay - Window)
    BY <1>1, LimitAssumption DEF Of
  <1>7. IsFiniteSet(Of(A, a.key, u + Delay - Window))
    BY Sizes DEF Of, Readings
  <1>8. Cardinality(Of(B, a.key, from) \ {a}) <= LimitOf[a.key.rule]
    <2>1. /\ Cardinality(Of(B, a.key, from) \ {a}) \in Nat
          /\ Cardinality(Of(A, a.key, u + Delay - Window)) \in Nat
          /\ Cardinality(Of(B, a.key, from) \ {a})
               <= Cardinality(Of(A, a.key, u + Delay - Window))
      BY <1>6, <1>7, Sizes
    <2>2. Cardinality(Of(A, a.key, u + Delay - Window)) <= LimitOf[a.key.rule]
      BY DEF Ended
    <2> QED
      BY <2>1, <2>2
  <1> QED
    BY <1>2, <1>3, <1>4, <1>5, <1>8 DEF InWindow

LEMMA WindowGoesOn ==
  ASSUME NEW A, NEW a, Readings(A \cup {a}),
         NEW start \in Nat, NEW count \in Nat, NEW C, InWindow(A, a.key, start, count, C),
         LimitOf[a.key.rule] \in Nat,
         a.at >= start - Delay, a.at < start + Window
  PROVE  InWindow(A \cup {a}, a.key, start, count + 1, C \cup {a})
  <1> DEFINE B == A \cup {a}
             from == start + 2 * Delay - Window
  <1>1. C \cup {a} \subseteq Of(B, a.key, start - Delay)
    BY DEF InWindow, Of
  <1>2. IsFiniteSet(C)
    BY Sizes DEF Readings, InWindow, Of
  <1>3. Cardinality(C \cup {a}) <= count + 1
    <2>1. Cardinality({a}) = 1 /\ IsFiniteSet({a})
      BY FS_Singleton
    <2>2. /\ IsFiniteSet(C \cup {a})
          /\ Cardinality(C \cup {a}) <= Cardinality(C) + Cardinality({a})
      BY <1>2, <2>1, UnionSize
    <2>3. Cardinality(C) \in Nat /\ Cardinality(C \cup {a}) \in Nat /\ Cardinality(C) <= count
      BY <1>2, <2>2, FS_CardinalityType DEF InWindow
    <2> QED
      BY <2>1, <2>2, <2>3
  <1>4. \A b \in C \cup {a} : b.at < start + Window
    BY DEF InWindow
  <1>5. \A b \in Of(B, a.key, 0) \ (C \cup {a}) : b.at < start + Delay
    BY DEF InWindow, Of
  <1>6. Of(B, a.key, from) \ (C \cup {a}) \subseteq Of(A, a.key, from) \ C
    BY DEF Of
  <1>7. IsFiniteSet(Of(A, a.key, from) \ C)
    BY Sizes DEF Of, Readings
  <1>8. Cardinality(Of(B, a.key, from) \ (C \cup {a})) <= LimitOf[a.key.rule]
    <2>1. /\ Cardinality(Of(B, a.key, from) \ (C \cup {a})) \in Nat
          /\ Cardinality(Of(A, a.key, from) \ C) \in Nat
          /\ Cardinality(Of(B, a.key, from) \ (C \cup {a}))
               <= Cardinality(Of(A, a.key, from) \ C)
      BY <1>6, <1>7, Sizes
    <2>2. Cardinality(Of(A, a.key, from) \ C) <= LimitOf[a.key.rule]
      BY DEF InWindow
    <2> QED
      BY <2>1, <2>2
  <1> QED
    BY <1>1, <1>3, <1>4, <1>5, <1>8 DEF InWindow

(* A period that reaches a new admission sees two windows at most. *)
LEMMA TwoWindows ==
  ASSUME NEW A, NEW a, Readings(A \cup {a}), LimitOf[a.key.rule] \in Nat,
         NEW start \in Nat, NEW count \in Nat, count <= LimitOf[a.key.rule],
         NEW C, InWindow(A \cup {a}, a.key, start, count, C), a \in C,
         NEW from \in Int, Cardinality(Reach(A, a.key, from)) <= 2 * LimitOf[a.key.rule]
  PROVE  Cardinality(Reach(A \cup {a}, a.key, from)) <= 2 * LimitOf[a.key.rule]
  <1> DEFINE B == A \cup {a}
             before == start + 2 * Delay - Window
             old == Of(B, a.key, before) \ C
  <1>1. CASE a \notin Reach(B, a.key, from)
    <2>1. Reach(B, a.key, from) = Reach(A, a.key, from)
      BY <1>1 DEF Reach, Of
    <2> QED
      BY <2>1
  <1>2. CASE a \in Reach(B, a.key, from)
    <2>1. a.at \in Nat /\ a.at >= start - Delay
      BY DEF Readings, InWindow, Of
    <2>2. a.at <= from + Window - 3 * Delay
      BY <1>2 DEF Reach
    <2>3. from >= before
      BY <2>1, <2>2, LimitAssumption
    <2>4. Reach(B, a.key, from) \subseteq C \cup old
      <3> SUFFICES ASSUME NEW b \in Reach(B, a.key, from) PROVE b \in C \cup old
        OBVIOUS
      <3>1. b \in B /\ b.key = a.key /\ b.at >= from
        BY DEF Reach, Of
      <3>2. b.at \in Nat
        BY <3>1 DEF Readings
      <3>3. b.at >= before
        BY <2>3, <3>1, <3>2, LimitAssumption
      <3> QED
        BY <3>1, <3>3 DEF Of
    <2>5. IsFiniteSet(C) /\ IsFiniteSet(old)
      BY Sizes DEF Readings, InWindow, Of
    <2>6. /\ IsFiniteSet(C \cup old)
          /\ Cardinality(C \cup old) <= Cardinality(C) + Cardinality(old)
      BY <2>5, UnionSize
    <2>7. /\ Cardinality(Reach(B, a.key, from)) \in Nat
          /\ Cardinality(C \cup old) \in Nat
          /\ Cardinality(Reach(B, a.key, from)) <= Cardinality(C \cup old)
      BY <2>4, <2>6, Sizes
    <2>8. Cardinality(C) \in Nat /\ Cardinality(old) \in Nat
      BY <2>5, FS_CardinalityType
    <2>9. Cardinality(C) <= count /\ Cardinality(old) <= LimitOf[a.key.rule]
      BY DEF InWindow
    <2> QED
      BY <2>6, <2>7, <2>8, <2>9
  <1> QED
    BY <1>1, <1>2

-----------------------------------------------------------------------------
(* The inductive invariant. *)

(* Late readings: a request that waits read the clock Delay ago at most.   *)
Clocks ==
  /\ now \in Nat
  /\ lastPrune # Never => lastPrune \in Nat /\ lastPrune <= now
  /\ \A s \in Slot : Waiting(s) =>
       /\ slot[s].key \in Keys
       /\ slot[s].at \in Nat /\ slot[s].at <= now /\ now <= slot[s].at + Delay

(* A window begins with an admission, less than a window before the last   *)
(* sweep or after it.                                                      *)
EntriesOK ==
  \A k \in DOMAIN entries :
    /\ k \in Keys
    /\ entries[k] \in [started : Nat, count : Nat]
    /\ entries[k].started <= now
    /\ lastPrune # Never /\ entries[k].started > lastPrune - Window
    /\ \E a \in admitted : a.key = k /\ a.at = entries[k].started

AdmittedOK == Readings(admitted) /\ \A a \in admitted : a.at <= now

WindowsOK ==
  \A k \in Keys :
    /\ k \in DOMAIN entries =>
         \E C : InWindow(admitted, k, entries[k].started, entries[k].count, C)
    /\ k \notin DOMAIN entries => Ended(admitted, k, now)

PeriodsOK ==
  \A k \in Keys : \A from \in Int :
    Cardinality(Reach(admitted, k, from)) <= 2 * LimitOf[k.rule]

(* A refused client is told to come back after its window has ended.       *)
PromisesOK ==
  /\ promised \in [Keys -> Int]
  /\ \A k \in DOMAIN entries :
       promised[k] # Never => promised[k] >= entries[k].started + Window

Recent(A, t) == {a.key : a \in {b \in A : b.at > t - 2 * Window}}

FullOK ==
  \A s \in Slot : slot[s].pc = "done" /\ slot[s].why = "full" =>
    slot[s].at \in Nat /\ Cardinality(Recent(admitted, slot[s].at)) >= MaxKeys

LimiterInv ==
  /\ TableInv /\ Clocks /\ EntriesOK /\ AdmittedOK
  /\ WindowsOK /\ PeriodsOK /\ PromisesOK /\ FullOK

LEMMA KeysHaveBudget ==
  ASSUME NEW k \in Keys
  PROVE  LimitOf[k.rule] \in Nat /\ LimitOf[k.rule] >= 1
  <1>1. PICK r \in Request : Limited(r) /\ k = KeyOf(r)
    BY DEF Keys
  <1>2. LimitOf[k.rule] \in Nat \ {0}
    BY <1>1, RuleHasBudget DEF KeyOf
  <1> QED
    BY <1>2

LastSweep(t) == IF PruneDue(t) THEN t ELSE lastPrune

(* What a sweep leaves has begun within two windows, what it takes has     *)
(* ended.                                                                  *)
LEMMA SweepByReading ==
  ASSUME LimiterInv, NEW t \in Nat, t <= now, now <= t + Delay
  PROVE  /\ LastSweep(t) \in Nat /\ LastSweep(t) <= now
         /\ t - LastSweep(t) < Window
         /\ \A x \in DOMAIN Swept(t) :
              /\ x \in DOMAIN entries /\ Swept(t)[x] = entries[x]
              /\ entries[x].started > LastSweep(t) - Window
         /\ \A x \in Keys : x \notin DOMAIN Swept(t) => Ended(admitted, x, now)
  <1>1. /\ LastSweep(t) \in Nat /\ LastSweep(t) <= now
        /\ t - LastSweep(t) < Window
    BY LimitAssumption DEF LimiterInv, Clocks, LastSweep, PruneDue
  <1>2. /\ DOMAIN Swept(t) \subseteq DOMAIN entries
        /\ \A x \in DOMAIN Swept(t) : Swept(t)[x] = entries[x]
    BY SweptShrinks DEF LimiterInv, TableInv
  <1>3. ASSUME NEW x \in DOMAIN Swept(t)
        PROVE  entries[x].started > LastSweep(t) - Window
    <2>1. entries[x].started \in Nat /\ entries[x].started > lastPrune - Window
      BY <1>2 DEF LimiterInv, EntriesOK
    <2>2. CASE PruneDue(t)
      <3>1. ~Expired(entries[x], t)
        BY <2>2 DEF Swept
      <3> QED
        BY <2>1, <2>2, <3>1, LimitAssumption DEF LastSweep, Expired
    <2>3. CASE ~PruneDue(t)
      BY <2>1, <2>3 DEF LastSweep
    <2> QED
      BY <2>2, <2>3
  <1>4. ASSUME NEW x \in Keys, x \notin DOMAIN Swept(t)
        PROVE  Ended(admitted, x, now)
    <2>1. CASE x \notin DOMAIN entries
      BY <2>1 DEF LimiterInv, WindowsOK
    <2>2. CASE x \in DOMAIN entries
      <3>1. Expired(entries[x], t)
        BY <1>4, <2>2 DEF Swept
      <3>2. entries[x].started \in Nat /\ entries[x].count \in Nat
        BY <2>2 DEF LimiterInv, EntriesOK
      <3>3. now \in Nat /\ now >= entries[x].started + Window
        BY <3>1, <3>2, LimitAssumption DEF Expired, LimiterInv, Clocks
      <3>4. LimitOf[x.rule] \in Nat /\ entries[x].count <= LimitOf[x.rule]
        BY <2>2, KeysHaveBudget DEF LimiterInv, TableInv, TableBounded
      <3>5. PICK C : InWindow(admitted, x, entries[x].started, entries[x].count, C)
        BY <2>2 DEF LimiterInv, WindowsOK
      <3> QED
        BY <3>2, <3>3, <3>4, <3>5, WindowEnds DEF LimiterInv, AdmittedOK
    <2> QED
      BY <2>1, <2>2
  <1> QED
    BY <1>1, <1>2, <1>3, <1>4

LEMMA Readable ==
  ASSUME LimiterInv, NEW s \in Slot, Waiting(s)
  PROVE  /\ slot[s].key \in Keys
         /\ LimitOf[slot[s].key.rule] \in Nat /\ LimitOf[slot[s].key.rule] >= 1
         /\ slot[s].at \in Nat /\ slot[s].at <= now /\ now <= slot[s].at + Delay
         /\ now \in Nat
  BY KeysHaveBudget DEF LimiterInv, Clocks

(* What the limiter lets through goes on with its client's window, or      *)
(* begins one after the others have ended.                                 *)
LEMMA AdmitKeepsWindow ==
  ASSUME LimiterInv, NEW s \in Slot, Admit(s), NEW a,
         a.key = slot[s].key, a.at = slot[s].at, Readings(admitted \cup {a})
  PROVE  LET k == slot[s].key
             e == [EntryOf(k, a.at) EXCEPT !.count = @ + 1]
         IN  /\ e \in [started : Nat, count : Nat]
             /\ e.started <= now /\ e.started > LastSweep(a.at) - Window
             /\ e.started = a.at \/ (k \in DOMAIN entries /\ e.started = entries[k].started)
             /\ \E C : a \in C /\ InWindow(admitted \cup {a}, k, e.started, e.count, C)
  <1> DEFINE k == slot[s].key
             t == a.at
             e == [EntryOf(k, t) EXCEPT !.count = @ + 1]
  <1>1. /\ k \in Keys
        /\ LimitOf[k.rule] \in Nat /\ LimitOf[k.rule] >= 1
        /\ t \in Nat /\ t <= now /\ now <= t + Delay /\ now \in Nat
    BY Readable DEF Admit
  <1>2. /\ LastSweep(t) \in Nat /\ LastSweep(t) <= now
        /\ t - LastSweep(t) < Window
        /\ \A x \in DOMAIN Swept(t) :
             /\ x \in DOMAIN entries /\ Swept(t)[x] = entries[x]
             /\ entries[x].started > LastSweep(t) - Window
        /\ \A x \in Keys : x \notin DOMAIN Swept(t) => Ended(admitted, x, now)
    BY <1>1, SweepByReading
  <1>3. Readings(admitted)
    BY DEF LimiterInv, AdmittedOK
  <1>4. CASE Known(k, t)
    <2>1. k \in DOMAIN Swept(t) /\ k \in DOMAIN entries /\ EntryOf(k, t) = entries[k]
          /\ ~Expired(entries[k], t)
      BY <1>2, <1>4 DEF Known, EntryOf
    <2>2. entries[k] \in [started : Nat, count : Nat] /\ entries[k].started <= now
      BY <2>1 DEF LimiterInv, EntriesOK
    <2>3. e \in [started : Nat, count : Nat] /\ e.started = entries[k].started
          /\ e.count = entries[k].count + 1
      BY <2>1, <2>2
    <2>4. t >= entries[k].started - Delay /\ t < entries[k].started + Window
      BY <1>1, <2>1, <2>2, LimitAssumption DEF Expired
    <2>5. PICK C : InWindow(admitted, k, entries[k].started, entries[k].count, C)
      BY <1>1, <2>1 DEF LimiterInv, WindowsOK
    <2>6. InWindow(admitted \cup {a}, k, entries[k].started, entries[k].count + 1, C \cup {a})
      BY <1>1, <2>2, <2>4, <2>5, WindowGoesOn
    <2>7. a \in C \cup {a} /\ InWindow(admitted \cup {a}, k, e.started, e.count, C \cup {a})
      BY <2>3, <2>6
    <2>8. e.started > LastSweep(t) - Window
      BY <1>2, <2>1, <2>3
    <2> QED
      BY <2>1, <2>2, <2>3, <2>7, <2>8
  <1>5. CASE ~Known(k, t)
    <2>1. EntryOf(k, t) = [started |-> t, count |-> 0]
      BY <1>5 DEF EntryOf
    <2>2. e \in [started : Nat, count : Nat] /\ e.started = t /\ e.count = 1
      BY <1>1, <2>1
    <2>3. e.started > LastSweep(t) - Window
      BY <1>1, <1>2, <2>2, LimitAssumption
    <2>4. \E u \in Nat : Ended(admitted, k, u) /\ u <= t + Delay
      <3>1. CASE k \notin DOMAIN Swept(t)
        BY <1>1, <1>2, <3>1
      <3>2. CASE k \in DOMAIN Swept(t)
        <4>1. k \in DOMAIN entries /\ Expired(entries[k], t)
          BY <1>2, <1>5, <3>2 DEF Known
        <4>2. entries[k].started \in Nat /\ entries[k].count \in Nat
          BY <4>1 DEF LimiterInv, EntriesOK
        <4>3. t >= entries[k].started + Window
          BY <1>1, <4>1, <4>2, LimitAssumption DEF Expired
        <4>4. entries[k].count <= LimitOf[k.rule]
          BY <1>1, <4>1 DEF LimiterInv, TableInv, TableBounded
        <4>5. PICK C : InWindow(admitted, k, entries[k].started, entries[k].count, C)
          BY <1>1, <4>1 DEF LimiterInv, WindowsOK
        <4>6. Ended(admitted, k, t)
          BY <1>1, <1>3, <4>2, <4>3, <4>4, <4>5, WindowEnds
        <4>7. t <= t + Delay
          BY <1>1, LimitAssumption
        <4> QED
          BY <1>1, <4>6, <4>7
      <3> QED
        BY <3>1, <3>2
    <2>5. InWindow(admitted \cup {a}, k, t, 1, {a})
      BY <1>1, <2>4, WindowBegins
    <2>6. a \in {a} /\ InWindow(admitted \cup {a}, k, e.started, e.count, {a})
      BY <2>2, <2>5
    <2> QED
      BY <1>1, <2>2, <2>3, <2>6
  <1> QED
    BY <1>4, <1>5

(* Admissions of other clients change nothing for x. *)
LEMMA OthersStay ==
  ASSUME NEW A, NEW a, NEW x, x # a.key
  PROVE  /\ \A start, count, C :
              InWindow(A, x, start, count, C) => InWindow(A \cup {a}, x, start, count, C)
         /\ \A u : Ended(A, x, u) => Ended(A \cup {a}, x, u)
         /\ \A from : Reach(A \cup {a}, x, from) = Reach(A, x, from)
  <1>1. \A from : Of(A \cup {a}, x, from) = Of(A, x, from)
    BY DEF Of
  <1> QED
    BY <1>1 DEF InWindow, Ended, Reach

LEMMA RecentGrows ==
  ASSUME NEW A, NEW B, IsFiniteSet(B), A \subseteq B, NEW t
  PROVE  /\ Cardinality(Recent(A, t)) \in Nat /\ Cardinality(Recent(B, t)) \in Nat
         /\ Cardinality(Recent(A, t)) <= Cardinality(Recent(B, t))
         /\ IsFiniteSet(Recent(B, t))
  <1>1. IsFiniteSet({b \in B : b.at > t - 2 * Window})
    BY Sizes
  <1>2. IsFiniteSet(Recent(B, t))
    <2> DEFINE S == {b \in B : b.at > t - 2 * Window}
               keyOf == [b \in S |-> b.key]
    <2>1. keyOf \in Surjection(S, Recent(B, t))
      BY DEF Recent, Surjection
    <2> QED
      BY <1>1, <2>1, FS_Surjection
  <1>3. Recent(A, t) \subseteq Recent(B, t)
    BY DEF Recent
  <1> QED
    BY <1>2, <1>3, Sizes

LEMMA AdmitKeeps ==
  ASSUME LimiterInv, NEW s \in Slot, Admit(s)
  PROVE  LimiterInv'
  <1> DEFINE k == slot[s].key
             t == slot[s].at
             a == [key |-> k, at |-> t,
                   nth |-> Cardinality({b \in admitted : b.key = k /\ b.at = t})]
             e == [EntryOf(k, t) EXCEPT !.count = @ + 1]
  <1>1. /\ k \in Keys
        /\ LimitOf[k.rule] \in Nat /\ LimitOf[k.rule] >= 1
        /\ t \in Nat /\ t <= now /\ now <= t + Delay /\ now \in Nat
    BY Readable DEF Admit
  <1>2. /\ LastSweep(t) \in Nat /\ LastSweep(t) <= now
        /\ t - LastSweep(t) < Window
        /\ \A x \in DOMAIN Swept(t) :
             /\ x \in DOMAIN entries /\ Swept(t)[x] = entries[x]
             /\ entries[x].started > LastSweep(t) - Window
        /\ \A x \in Keys : x \notin DOMAIN Swept(t) => Ended(admitted, x, now)
    BY <1>1, SweepByReading
  <1>3. /\ admitted' = admitted \cup {a} /\ now' = now
        /\ lastPrune' = LastSweep(t)
        /\ entries' = [x \in DOMAIN Swept(t) \cup {k} |-> IF x = k THEN e ELSE Swept(t)[x]]
        /\ slot' = [slot EXCEPT ![s] = [pc |-> "handle", req |-> @.req]]
        /\ promised' = [promised EXCEPT ![k] = Never]
    BY DEF Admit, Sweep, LastSweep
  <1>4. a.key = k /\ a.at = t
    OBVIOUS
  <1> HIDE DEF a
  <1>5. Readings(admitted) /\ \A b \in admitted : b.at <= now
    BY DEF LimiterInv, AdmittedOK
  <1>6. Readings(admitted \cup {a})
    BY <1>1, <1>4, <1>5, FS_AddElement DEF Readings
  <1>7. /\ e \in [started : Nat, count : Nat]
        /\ e.started <= now /\ e.started > LastSweep(t) - Window
        /\ e.started = t \/ (k \in DOMAIN entries /\ e.started = entries[k].started)
        /\ \E C : a \in C /\ InWindow(admitted \cup {a}, k, e.started, e.count, C)
    <2> DEFINE d == [EntryOf(k, a.at) EXCEPT !.count = @ + 1]
    <2>1. /\ d \in [started : Nat, count : Nat]
          /\ d.started <= now /\ d.started > LastSweep(a.at) - Window
          /\ d.started = a.at \/ (k \in DOMAIN entries /\ d.started = entries[k].started)
          /\ \E C : a \in C /\ InWindow(admitted \cup {a}, k, d.started, d.count, C)
      BY <1>4, <1>6, AdmitKeepsWindow
    <2>2. d = e
      BY <1>4
    <2> HIDE DEF d, e
    <2> QED
      BY <1>4, <2>1, <2>2
  <1> HIDE DEF e
  <1>8. TableInv'
    BY AdmitKeepsTable DEF LimiterInv
  <1>9. \A w \in Slot : Waiting(w)' => Waiting(w) /\ slot'[w] = slot[w]
    BY <1>3 DEF LimiterInv, TableInv, WaitingIsLimited, Waiting
  <1>10. Clocks'
    BY <1>1, <1>2, <1>3, <1>9 DEF LimiterInv, Clocks
  <1>11. AdmittedOK'
    BY <1>1, <1>3, <1>4, <1>5, <1>6 DEF AdmittedOK
  <1>12. EntriesOK'
    <2> SUFFICES ASSUME NEW x \in DOMAIN entries'
                 PROVE  /\ x \in Keys
                        /\ entries'[x] \in [started : Nat, count : Nat]
                        /\ entries'[x].started <= now'
                        /\ lastPrune' # Never /\ entries'[x].started > lastPrune' - Window
                        /\ \E b \in admitted' : b.key = x /\ b.at = entries'[x].started
      BY DEF EntriesOK
    <2>1. lastPrune' # Never
      BY <1>2, <1>3 DEF Never
    <2>2. CASE x = k
      <3>1. entries'[x] = e
        BY <1>3, <2>2
      <3>2. \E b \in admitted' : b.key = x /\ b.at = e.started
        BY <1>3, <1>4, <1>7, <2>2 DEF LimiterInv, EntriesOK
      <3> QED
        BY <1>1, <1>3, <1>7, <2>1, <2>2, <3>1, <3>2
    <2>3. CASE x # k
      <3>1. x \in DOMAIN Swept(t) /\ entries'[x] = entries[x] /\ x \in DOMAIN entries
        BY <1>2, <1>3, <2>3
      <3>2. /\ x \in Keys
            /\ entries[x] \in [started : Nat, count : Nat]
            /\ entries[x].started <= now
            /\ \E b \in admitted : b.key = x /\ b.at = entries[x].started
        BY <3>1 DEF LimiterInv, EntriesOK
      <3> QED
        BY <1>2, <1>3, <2>1, <3>1, <3>2
    <2> QED
      BY <2>2, <2>3
  <1>13. WindowsOK'
    <2> SUFFICES ASSUME NEW x \in Keys
                 PROVE  /\ x \in DOMAIN entries' =>
                             \E C : InWindow(admitted', x, entries'[x].started,
                                             entries'[x].count, C)
                        /\ x \notin DOMAIN entries' => Ended(admitted', x, now')
      BY DEF WindowsOK
    <2>1. CASE x = k
      <3>1. x \in DOMAIN entries' /\ entries'[x] = e
        BY <1>3, <2>1
      <3> QED
        BY <1>3, <1>7, <2>1, <3>1
    <2>2. CASE x # k
      <3>1. x \in DOMAIN entries' <=> x \in DOMAIN Swept(t)
        BY <1>3, <2>2
      <3>2. CASE x \in DOMAIN Swept(t)
        <4>1. entries'[x] = entries[x] /\ x \in DOMAIN entries
          BY <1>2, <1>3, <2>2, <3>2
        <4>2. PICK C : InWindow(admitted, x, entries[x].started, entries[x].count, C)
          BY <4>1 DEF LimiterInv, WindowsOK
        <4>3. InWindow(admitted', x, entries'[x].started, entries'[x].count, C)
          BY <1>3, <1>4, <2>2, <4>1, <4>2, OthersStay
        <4> QED
          BY <3>1, <3>2, <4>3
      <3>3. CASE x \notin DOMAIN Swept(t)
        <4>1. Ended(admitted, x, now)
          BY <1>2, <3>3
        <4>2. Ended(admitted', x, now')
          BY <1>3, <1>4, <2>2, <4>1, OthersStay
        <4> QED
          BY <3>1, <3>3, <4>2
      <3> QED
        BY <3>2, <3>3
    <2> QED
      BY <2>1, <2>2
  <1>14. PeriodsOK'
    <2> SUFFICES ASSUME NEW x \in Keys, NEW from \in Int
                 PROVE  Cardinality(Reach(admitted', x, from)) <= 2 * LimitOf[x.rule]
      BY DEF PeriodsOK
    <2>1. Cardinality(Reach(admitted, x, from)) <= 2 * LimitOf[x.rule]
      BY DEF LimiterInv, PeriodsOK
    <2>2. CASE x = k
      <3>1. PICK C : a \in C /\ InWindow(admitted \cup {a}, k, e.started, e.count, C)
        BY <1>7
      <3>2. e.count <= LimitOf[k.rule]
        <4>1. k \in DOMAIN entries' /\ entries'[k] = e
          BY <1>3
        <4> QED
          BY <1>1, <1>8, <4>1 DEF TableInv, TableBounded
      <3> QED
        BY <1>1, <1>3, <1>4, <1>6, <1>7, <2>1, <2>2, <3>1, <3>2, TwoWindows
    <2>3. CASE x # k
      <3>1. Reach(admitted \cup {a}, x, from) = Reach(admitted, x, from)
        BY <1>4, <2>3, OthersStay
      <3> QED
        BY <1>3, <2>1, <3>1
    <2> QED
      BY <2>2, <2>3
  <1>15. PromisesOK'
    <2>1. promised \in [Keys -> Int]
      BY DEF LimiterInv, PromisesOK
    <2>2. promised' \in [Keys -> Int]
      <3>1. Never \in Int
        BY DEF Never
      <3> QED
        BY <1>3, <2>1, <3>1
    <2>3. ASSUME NEW x \in DOMAIN entries', promised'[x] # Never
          PROVE  promised'[x] >= entries'[x].started + Window
      <3>1. x # k
        BY <1>1, <1>3, <2>1, <2>3
      <3>2. x \in DOMAIN entries /\ entries'[x] = entries[x]
        BY <1>2, <1>3, <3>1
      <3>3. promised'[x] = promised[x]
        BY <1>3, <2>1, <3>1, <3>2 DEF LimiterInv, EntriesOK
      <3> QED
        BY <2>3, <3>2, <3>3 DEF LimiterInv, PromisesOK
    <2> QED
      BY <2>2, <2>3 DEF PromisesOK
  <1>16. FullOK'
    <2> SUFFICES ASSUME NEW w \in Slot, slot'[w].pc = "done", slot'[w].why = "full"
                 PROVE  /\ slot'[w].at \in Nat
                        /\ Cardinality(Recent(admitted', slot'[w].at)) >= MaxKeys
      BY DEF FullOK
    <2>1. slot'[w] = slot[w]
      BY <1>3 DEF LimiterInv, TableInv, WaitingIsLimited
    <2>2. slot[w].at \in Nat /\ Cardinality(Recent(admitted, slot[w].at)) >= MaxKeys
      BY <2>1 DEF LimiterInv, FullOK
    <2>3. /\ Cardinality(Recent(admitted, slot[w].at)) \in Nat
          /\ Cardinality(Recent(admitted', slot[w].at)) \in Nat
          /\ Cardinality(Recent(admitted, slot[w].at)) <= Cardinality(Recent(admitted', slot[w].at))
      BY <1>3, <1>6, RecentGrows DEF Readings
    <2> QED
      BY <2>1, <2>2, <2>3, LimitAssumption
  <1> QED
    BY <1>8, <1>10, <1>11, <1>12, <1>13, <1>14, <1>15, <1>16 DEF LimiterInv

(* Division cuts off less than the divisor. *)
LEMMA Division ==
  ASSUME NEW x \in Int, NEW d \in Nat \ {0}
  PROVE  /\ x \div d \in Int
         /\ (x \div d) * d \in Int
         /\ (x \div d) * d <= x
         /\ x < (x \div d) * d + d
  <1>1. x \div d \in Int
    OBVIOUS
  <1>2. x = d * (x \div d) + (x % d)
    BY SMTT(30)
  <1>3. x % d \in 0..(d - 1)
    OBVIOUS
  <1> QED
    BY <1>1, <1>2, <1>3

LEMMA RetryAfterIsLater ==
  ASSUME NEW remaining \in Nat
  PROVE  /\ RetryAfter(remaining) * Second \in Int
         /\ RetryAfter(remaining) * Second > remaining
  <1> DEFINE q == remaining \div Second
  <1>1. /\ q \in Int /\ q * Second \in Int
        /\ remaining < q * Second + Second
    BY Division, LimitAssumption
  <1>2. (q + 1) * Second = q * Second + Second
    BY <1>1, LimitAssumption
  <1> QED
    BY <1>1, <1>2, LimitAssumption DEF RetryAfter

(* A refusal sweeps and promises; remaining outlasts the client's window.  *)
LEMMA RefusalKeeps ==
  ASSUME LimiterInv, NEW s \in Slot, Waiting(s), NEW remaining \in Nat, NEW why,
         Refusal(s, remaining, why),
         slot[s].key \in DOMAIN Swept(slot[s].at) =>
           slot[s].at + remaining >= entries[slot[s].key].started + Window,
         why = "full" => Cardinality(DOMAIN Swept(slot[s].at)) >= MaxKeys
  PROVE  LimiterInv'
  <1> DEFINE k == slot[s].key
             t == slot[s].at
             back == t + RetryAfter(remaining) * Second
  <1>1. /\ k \in Keys
        /\ t \in Nat /\ t <= now /\ now <= t + Delay /\ now \in Nat
    BY Readable
  <1>2. /\ LastSweep(t) \in Nat /\ LastSweep(t) <= now
        /\ t - LastSweep(t) < Window
        /\ \A x \in DOMAIN Swept(t) :
             /\ x \in DOMAIN entries /\ Swept(t)[x] = entries[x]
             /\ entries[x].started > LastSweep(t) - Window
        /\ \A x \in Keys : x \notin DOMAIN Swept(t) => Ended(admitted, x, now)
    BY <1>1, SweepByReading
  <1>3. /\ admitted' = admitted /\ now' = now
        /\ lastPrune' = LastSweep(t)
        /\ entries' = Swept(t)
        /\ slot' = [slot EXCEPT ![s] = [pc |-> "done", status |-> StatusFor("RATE_LIMITED"),
                                        req |-> @.req, why |-> why, at |-> t]]
        /\ promised' = [promised EXCEPT ![k] = back]
    BY DEF Refusal, Sweep, LastSweep
  <1>4. back \in Int /\ back > t + remaining
    BY <1>1, RetryAfterIsLater
  <1> HIDE DEF back
  <1>5. TableInv'
    BY RefusalKeepsTable DEF LimiterInv
  <1>6. /\ slot'[s].pc = "done" /\ slot'[s].at = t /\ slot'[s].why = why
        /\ \A w \in Slot : w # s => slot'[w] = slot[w]
    BY <1>3 DEF LimiterInv, TableInv, WaitingIsLimited
  <1>7. \A w \in Slot : Waiting(w)' => Waiting(w) /\ slot'[w] = slot[w]
    BY <1>6 DEF Waiting
  <1>8. Clocks'
    BY <1>1, <1>2, <1>3, <1>7 DEF LimiterInv, Clocks
  <1>9. AdmittedOK'
    BY <1>3 DEF LimiterInv, AdmittedOK
  <1>10. EntriesOK'
    <2> SUFFICES ASSUME NEW x \in DOMAIN entries'
                 PROVE  /\ x \in Keys
                        /\ entries'[x] \in [started : Nat, count : Nat]
                        /\ entries'[x].started <= now'
                        /\ lastPrune' # Never /\ entries'[x].started > lastPrune' - Window
                        /\ \E b \in admitted' : b.key = x /\ b.at = entries'[x].started
      BY DEF EntriesOK
    <2>1. lastPrune' # Never
      BY <1>2, <1>3 DEF Never
    <2>2. x \in DOMAIN Swept(t) /\ entries'[x] = entries[x] /\ x \in DOMAIN entries
      BY <1>2, <1>3
    <2>3. /\ x \in Keys
          /\ entries[x] \in [started : Nat, count : Nat]
          /\ entries[x].started <= now
          /\ \E b \in admitted : b.key = x /\ b.at = entries[x].started
      BY <2>2 DEF LimiterInv, EntriesOK
    <2> QED
      BY <1>2, <1>3, <2>1, <2>2, <2>3
  <1>11. WindowsOK'
    <2> SUFFICES ASSUME NEW x \in Keys
                 PROVE  /\ x \in DOMAIN entries' =>
                             \E C : InWindow(admitted', x, entries'[x].started,
                                             entries'[x].count, C)
                        /\ x \notin DOMAIN entries' => Ended(admitted', x, now')
      BY DEF WindowsOK
    <2>1. ASSUME x \in DOMAIN entries'
          PROVE  \E C : InWindow(admitted', x, entries'[x].started, entries'[x].count, C)
      <3>1. entries'[x] = entries[x] /\ x \in DOMAIN entries
        BY <1>2, <1>3, <2>1
      <3> QED
        BY <1>3, <3>1 DEF LimiterInv, WindowsOK
    <2>2. ASSUME x \notin DOMAIN entries'
          PROVE  Ended(admitted', x, now')
      BY <1>2, <1>3, <2>2
    <2> QED
      BY <2>1, <2>2
  <1>12. PeriodsOK'
    BY <1>3 DEF LimiterInv, PeriodsOK
  <1>13. PromisesOK'
    <2>1. promised \in [Keys -> Int]
      BY DEF LimiterInv, PromisesOK
    <2>2. promised' \in [Keys -> Int]
      BY <1>3, <1>4, <2>1
    <2>3. ASSUME NEW x \in DOMAIN entries', promised'[x] # Never
          PROVE  promised'[x] >= entries'[x].started + Window
      <3>1. x \in DOMAIN Swept(t) /\ entries'[x] = entries[x] /\ x \in DOMAIN entries
        BY <1>2, <1>3
      <3>2. x \in Keys /\ entries[x].started \in Nat
        BY <3>1 DEF LimiterInv, EntriesOK
      <3>3. CASE x = k
        <4>1. promised'[x] = back
          BY <1>1, <1>3, <2>1, <3>3
        <4>2. t + remaining >= entries[x].started + Window
          BY <3>1, <3>3
        <4> QED
          BY <1>1, <1>4, <3>1, <3>2, <4>1, <4>2, LimitAssumption
      <3>4. CASE x # k
        <4>1. promised'[x] = promised[x]
          BY <1>3, <2>1, <3>2, <3>4
        <4> QED
          BY <2>3, <3>1, <4>1 DEF LimiterInv, PromisesOK
      <3> QED
        BY <3>3, <3>4
    <2> QED
      BY <2>2, <2>3 DEF PromisesOK
  <1>14. FullOK'
    <2> SUFFICES ASSUME NEW w \in Slot, slot'[w].pc = "done", slot'[w].why = "full"
                 PROVE  /\ slot'[w].at \in Nat
                        /\ Cardinality(Recent(admitted, slot'[w].at)) >= MaxKeys
      BY <1>3 DEF FullOK
    <2>1. CASE w # s
      BY <1>6, <2>1 DEF LimiterInv, FullOK
    <2>2. CASE w = s
      <3>1. Cardinality(DOMAIN Swept(t)) >= MaxKeys
        BY <1>6, <2>2
      <3>2. DOMAIN Swept(t) \subseteq Recent(admitted, t)
        <4> SUFFICES ASSUME NEW x \in DOMAIN Swept(t) PROVE x \in Recent(admitted, t)
          OBVIOUS
        <4>1. x \in DOMAIN entries /\ entries[x].started > LastSweep(t) - Window
          BY <1>2
        <4>2. PICK b \in admitted : b.key = x /\ b.at = entries[x].started
          BY <4>1 DEF LimiterInv, EntriesOK
        <4>3. b.at \in Nat
          BY DEF LimiterInv, AdmittedOK, Readings
        <4>4. b.at > t - 2 * Window
          BY <1>1, <1>2, <4>1, <4>2, <4>3, LimitAssumption
        <4> QED
          BY <4>2, <4>4 DEF Recent
      <3>3. IsFiniteSet(Recent(admitted, t))
        BY RecentGrows DEF LimiterInv, AdmittedOK, Readings
      <3>4. /\ Cardinality(DOMAIN Swept(t)) \in Nat
            /\ Cardinality(Recent(admitted, t)) \in Nat
            /\ Cardinality(DOMAIN Swept(t)) <= Cardinality(Recent(admitted, t))
        BY <3>2, <3>3, Sizes
      <3> QED
        BY <1>1, <1>6, <2>2, <3>1, <3>4, LimitAssumption
    <2> QED
      BY <2>1, <2>2
  <1> QED
    BY <1>5, <1>8, <1>9, <1>10, <1>11, <1>12, <1>13, <1>14 DEF LimiterInv

LEMMA RefuseNewClientKeeps ==
  ASSUME LimiterInv, NEW s \in Slot, RefuseNewClient(s)
  PROVE  LimiterInv'
  <1> DEFINE k == slot[s].key
             t == slot[s].at
  <1>1. Waiting(s) /\ Full(k, t) /\ Refusal(s, Window, "full")
    BY DEF RefuseNewClient
  <1>2. t \in Nat /\ t <= now /\ now <= t + Delay
    BY <1>1, Readable
  <1>3. Cardinality(DOMAIN Swept(t)) >= MaxKeys
    BY <1>1 DEF Full
  <1>4. ASSUME k \in DOMAIN Swept(t)
        PROVE  t + Window >= entries[k].started + Window
    <2>1. k \in DOMAIN entries /\ Swept(t)[k] = entries[k]
      BY <1>2, <1>4, SweepByReading
    <2>2. Expired(entries[k], t)
      BY <1>1, <1>4, <2>1 DEF Full, Known
    <2>3. entries[k].started \in Nat
      BY <2>1 DEF LimiterInv, EntriesOK
    <2> QED
      BY <1>2, <2>2, <2>3, LimitAssumption DEF Expired
  <1>5. Window \in Nat
    BY LimitAssumption
  <1> QED
    BY <1>1, <1>3, <1>4, <1>5, RefusalKeeps

LEMMA RefuseSpentKeeps ==
  ASSUME LimiterInv, NEW s \in Slot, RefuseSpent(s)
  PROVE  LimiterInv'
  <1> DEFINE k == slot[s].key
             t == slot[s].at
  <1>1. Waiting(s) /\ Spent(k, t) /\ Refusal(s, Remaining(k, t), "spent")
    BY DEF RefuseSpent
  <1>2. /\ LimitOf[k.rule] \in Nat /\ LimitOf[k.rule] >= 1
        /\ t \in Nat /\ t <= now /\ now <= t + Delay
    BY <1>1, Readable
  <1>3. Known(k, t)
    BY <1>1, <1>2 DEF Spent, EntryOf
  <1>4. /\ k \in DOMAIN Swept(t) /\ k \in DOMAIN entries
        /\ Swept(t)[k] = entries[k] /\ EntryOf(k, t) = entries[k]
    BY <1>2, <1>3, SweepByReading DEF Known, EntryOf
  <1>5. entries[k].started \in Nat
    BY <1>4 DEF LimiterInv, EntriesOK
  <1>6. Remaining(k, t) \in Nat /\ t + Remaining(k, t) >= entries[k].started + Window
    BY <1>2, <1>4, <1>5, LimitAssumption DEF Remaining
  <1> QED
    BY <1>1, <1>6, RefusalKeeps

(* Steps that leave the table alone.  Only time makes windows older.       *)
LEMMA OtherStepsKeep ==
  ASSUME LimiterInv, TableInv', UNCHANGED <<entries, lastPrune, admitted, promised>>,
         now' \in Nat, now' >= now,
         \A s \in Slot : Waiting(s)' =>
           /\ slot'[s].key \in Keys
           /\ slot'[s].at \in Nat /\ slot'[s].at <= now' /\ now' <= slot'[s].at + Delay,
         \A s \in Slot : slot'[s].pc = "done" /\ slot'[s].why = "full" => slot'[s] = slot[s]
  PROVE  LimiterInv'
  <1>1. now \in Nat /\ (lastPrune # Never => lastPrune \in Nat /\ lastPrune <= now)
    BY DEF LimiterInv, Clocks
  <1>2. Clocks'
    BY <1>1 DEF Clocks
  <1>3. AdmittedOK'
    <2>1. \A a \in admitted : a.at \in Nat /\ a.at <= now
      BY DEF LimiterInv, AdmittedOK, Readings
    <2> QED
      BY <1>1, <2>1 DEF LimiterInv, AdmittedOK
  <1>4. EntriesOK'
    <2>1. \A k \in DOMAIN entries : entries[k].started \in Nat /\ entries[k].started <= now'
      BY <1>1 DEF LimiterInv, EntriesOK
    <2> QED
      BY <2>1 DEF LimiterInv, EntriesOK
  <1>5. ASSUME NEW k, LimitOf[k.rule] \in Nat, Ended(admitted, k, now)
        PROVE  Ended(admitted, k, now')
    <2>1. Readings(admitted)
      BY DEF LimiterInv, AdmittedOK
    <2>2. \A a \in Of(admitted, k, 0) : a.at < now'
      BY <1>1, <1>5, <2>1 DEF Ended, Readings, Of
    <2>3. Of(admitted, k, now' + Delay - Window) \subseteq Of(admitted, k, now + Delay - Window)
      BY <1>1, <2>1, LimitAssumption DEF Of, Readings
    <2>4. IsFiniteSet(Of(admitted, k, now + Delay - Window))
      BY <2>1, Sizes DEF Of, Readings
    <2>5. /\ Cardinality(Of(admitted, k, now' + Delay - Window)) \in Nat
          /\ Cardinality(Of(admitted, k, now + Delay - Window)) \in Nat
          /\ Cardinality(Of(admitted, k, now' + Delay - Window))
               <= Cardinality(Of(admitted, k, now + Delay - Window))
      BY <2>3, <2>4, Sizes
    <2>6. Cardinality(Of(admitted, k, now + Delay - Window)) <= LimitOf[k.rule]
      BY <1>5 DEF Ended
    <2> QED
      BY <1>5, <2>2, <2>5, <2>6 DEF Ended
  <1>6. WindowsOK'
    BY <1>5, KeysHaveBudget DEF LimiterInv, WindowsOK
  <1>7. PeriodsOK'
    BY DEF LimiterInv, PeriodsOK
  <1>8. PromisesOK'
    BY DEF LimiterInv, PromisesOK
  <1>9. FullOK'
    BY DEF LimiterInv, FullOK
  <1> QED
    BY <1>2, <1>3, <1>4, <1>6, <1>7, <1>8, <1>9 DEF LimiterInv

LEMMA LimiterBegins == Init => LimiterInv
  <1> SUFFICES ASSUME Init PROVE LimiterInv
    OBVIOUS
  <1>1. /\ DOMAIN entries = {} /\ lastPrune = Never /\ now = 0 /\ admitted = {}
        /\ promised = [k \in Keys |-> Never] /\ \A s \in Slot : slot[s] = Idle
    BY DEF Init
  <1>2. IsFiniteSet({}) /\ Cardinality({}) = 0
    BY FS_EmptySet
  <1>3. TableInv
    BY TableBegins
  <1>4. Clocks
    BY <1>1 DEF Clocks, Waiting, Idle
  <1>5. EntriesOK /\ AdmittedOK
    BY <1>1, <1>2 DEF EntriesOK, AdmittedOK, Readings
  <1>6. \A k, from : Of({}, k, from) = {} /\ Reach({}, k, from) = {}
    BY DEF Of, Reach
  <1>7. WindowsOK
    <2> SUFFICES ASSUME NEW k \in Keys PROVE Ended(admitted, k, now)
      BY <1>1 DEF WindowsOK
    <2>1. Of(admitted, k, 0) = {} /\ Of(admitted, k, now + Delay - Window) = {}
      BY <1>1, <1>6
    <2>2. Cardinality(Of(admitted, k, now + Delay - Window)) = 0
      BY <1>2, <2>1
    <2>3. Cardinality(Of(admitted, k, now + Delay - Window)) <= LimitOf[k.rule]
      BY <2>2, KeysHaveBudget
    <2> QED
      BY <2>1, <2>3 DEF Ended
  <1>8. PeriodsOK
    <2> SUFFICES ASSUME NEW k \in Keys, NEW from \in Int
                 PROVE  Cardinality(Reach(admitted, k, from)) <= 2 * LimitOf[k.rule]
      BY DEF PeriodsOK
    <2>1. Reach(admitted, k, from) = {}
      BY <1>1, <1>6
    <2> QED
      BY <1>2, <2>1, KeysHaveBudget
  <1>9. PromisesOK
    <2>1. Never \in Int
      BY DEF Never
    <2> QED
      BY <1>1, <2>1 DEF PromisesOK
  <1>10. FullOK
    BY <1>1 DEF FullOK, Idle
  <1> QED
    BY <1>3, <1>4, <1>5, <1>7, <1>8, <1>9, <1>10 DEF LimiterInv

LEMMA LimiterContinues == LimiterInv /\ [Next]_vars => LimiterInv'
  <1> SUFFICES ASSUME LimiterInv, [Next]_vars PROVE LimiterInv'
    OBVIOUS
  <1>1. TableInv'
    BY TableKept DEF LimiterInv
  <1>2. slot = [s \in Slot |-> slot[s]]
    BY DEF LimiterInv, TableInv, WaitingIsLimited
  <1>3. /\ now \in Nat
        /\ \A s \in Slot : Waiting(s) =>
             /\ slot[s].key \in Keys
             /\ slot[s].at \in Nat /\ slot[s].at <= now /\ now <= slot[s].at + Delay
    BY DEF LimiterInv, Clocks
  <1>4. ASSUME NEW s \in Slot, NEW r \in Request, Arrive(s, r)
        PROVE  LimiterInv'
    <2>1. UNCHANGED <<entries, lastPrune, admitted, promised, now>>
      BY <1>4 DEF Arrive
    <2>2. \/ slot'[s].pc = "handle"
          \/ slot'[s].pc = "done" /\ slot'[s].why = "none"
          \/ /\ slot'[s].pc = "limit" /\ Limited(r)
             /\ slot'[s].key = KeyOf(r) /\ slot'[s].at = now
      BY <1>2, <1>4 DEF Arrive
    <2>3. \A w \in Slot : w # s => slot'[w] = slot[w]
      BY <1>2, <1>4 DEF Arrive
    <2>4. slot'[s].pc = "limit" => /\ slot'[s].key \in Keys
                                   /\ slot'[s].at = now
      BY <2>2 DEF Keys
    <2>5. \A w \in Slot : Waiting(w)' =>
            /\ slot'[w].key \in Keys
            /\ slot'[w].at \in Nat /\ slot'[w].at <= now' /\ now' <= slot'[w].at + Delay
      BY <1>3, <2>1, <2>3, <2>4, LimitAssumption DEF Waiting
    <2>6. \A w \in Slot : slot'[w].pc = "done" /\ slot'[w].why = "full" => slot'[w] = slot[w]
      BY <2>2, <2>3
    <2> QED
      BY <1>1, <1>3, <2>1, <2>5, <2>6, OtherStepsKeep
  <1>5. ASSUME NEW s \in Slot, NEW status, Answer(s, status),
               UNCHANGED <<entries, lastPrune, admitted, promised, now>>
        PROVE  LimiterInv'
    <2>1. slot'[s].pc = "done" /\ slot'[s].why = "none"
      BY <1>2, <1>5 DEF Answer
    <2>2. \A w \in Slot : w # s => slot'[w] = slot[w]
      BY <1>2, <1>5 DEF Answer
    <2>3. \A w \in Slot : Waiting(w)' =>
            /\ slot'[w].key \in Keys
            /\ slot'[w].at \in Nat /\ slot'[w].at <= now' /\ now' <= slot'[w].at + Delay
      BY <1>3, <1>5, <2>1, <2>2 DEF Waiting
    <2>4. \A w \in Slot : slot'[w].pc = "done" /\ slot'[w].why = "full" => slot'[w] = slot[w]
      BY <2>1, <2>2
    <2> QED
      BY <1>1, <1>3, <1>5, <2>3, <2>4, OtherStepsKeep
  <1>6. ASSUME NEW s \in Slot, TooLarge(s) \/ Malformed(s) \/ Handle(s)
        PROVE  LimiterInv'
    BY <1>5, <1>6 DEF TooLarge, Malformed, Handle
  <1>7. CASE Tick
    <2>1. /\ now' = now + 1 /\ slot' = slot
          /\ UNCHANGED <<entries, lastPrune, admitted, promised>>
          /\ \A s \in Slot : Waiting(s) => now < slot[s].at + Delay
      BY <1>7 DEF Tick
    <2>2. \A w \in Slot : Waiting(w)' =>
            /\ slot'[w].key \in Keys
            /\ slot'[w].at \in Nat /\ slot'[w].at <= now' /\ now' <= slot'[w].at + Delay
      BY <1>3, <2>1, LimitAssumption DEF Waiting
    <2> QED
      BY <1>1, <1>3, <2>1, <2>2, OtherStepsKeep
  <1>8. CASE UNCHANGED vars
    BY <1>1, <1>3, <1>8, OtherStepsKeep DEF vars, Waiting
  <1> QED
    BY <1>4, <1>6, <1>7, <1>8, AdmitKeeps, RefuseNewClientKeeps, RefuseSpentKeeps DEF Next

LEMMA LimiterInvariance == Spec => []LimiterInv
  BY LimiterBegins, LimiterContinues, PTL DEF Spec

-----------------------------------------------------------------------------
(* The results. *)

(* Within any period of a window, less what late readings take off the     *)
(* distance of two windows, a client is let through at most twice its      *)
(* budget, for any budgets, clients and readings.                          *)
THEOREM PeriodsBounded == Spec => []TwoWindowsAtMost
  <1>1. LimiterInv => TwoWindowsAtMost
    <2> SUFFICES ASSUME LimiterInv, NEW k \in Keys, NEW from \in 0..now
                 PROVE  Cardinality({a \in admitted :
                                       a.key = k /\ a.at \in from..(from + Window - 3 * Delay)})
                          <= 2 * LimitOf[k.rule]
      BY DEF TwoWindowsAtMost
    <2>1. from \in Int /\ \A a \in admitted : a.at \in Nat
      BY DEF LimiterInv, AdmittedOK, Readings
    <2>2. {a \in admitted : a.key = k /\ a.at \in from..(from + Window - 3 * Delay)}
            = Reach(admitted, k, from)
      BY <2>1, LimitAssumption DEF Reach, Of
    <2> QED
      BY <2>1, <2>2 DEF LimiterInv, PeriodsOK
  <1> QED
    BY LimiterInvariance, <1>1, PTL

(* A new client is refused for lack of room only if MaxKeys clients were   *)
(* let through within the last two windows, though sweeps are late and are *)
(* done with late readings.                                                *)
THEOREM RoomIsRecent == Spec => []FullTableIsRecent
  <1>1. LimiterInv => FullTableIsRecent
    BY DEF LimiterInv, FullOK, FullTableIsRecent, Recent
  <1> QED
    BY LimiterInvariance, <1>1, PTL

(* A client that comes back when Retry-After told it to finds its budget   *)
(* unspent, whatever the other clients and late readings did to the table  *)
(* meanwhile.                                                              *)
THEOREM PromisesAreKept == Spec => []RetryAfterIsKept
  <1>1. LimiterInv => RetryAfterIsKept
    <2> SUFFICES ASSUME LimiterInv, NEW s \in Slot, Waiting(s),
                        promised[slot[s].key] # Never, slot[s].at >= promised[slot[s].key]
                 PROVE  ~Spent(slot[s].key, slot[s].at)
      BY DEF RetryAfterIsKept
    <2> DEFINE k == slot[s].key
               t == slot[s].at
    <2>1. /\ k \in Keys
          /\ LimitOf[k.rule] \in Nat /\ LimitOf[k.rule] >= 1
          /\ t \in Nat /\ t <= now /\ now <= t + Delay
      BY Readable
    <2>2. ~Known(k, t)
      <3> SUFFICES ASSUME k \in DOMAIN Swept(t) PROVE Expired(Swept(t)[k], t)
        BY DEF Known
      <3>1. k \in DOMAIN entries /\ Swept(t)[k] = entries[k]
        BY <2>1, SweepByReading
      <3>2. entries[k].started \in Nat /\ promised[k] \in Int
        BY <2>1, <3>1 DEF LimiterInv, EntriesOK, PromisesOK
      <3>3. promised[k] >= entries[k].started + Window
        BY <3>1 DEF LimiterInv, PromisesOK
      <3> QED
        BY <2>1, <3>1, <3>2, <3>3, LimitAssumption DEF Expired
    <2>3. EntryOf(k, t).count = 0
      BY <2>2 DEF EntryOf
    <2> QED
      BY <2>1, <2>3 DEF Spent
  <1> QED
    BY LimiterInvariance, <1>1, PTL

(* With clocks that differ by Skew, tokens in whole seconds work from the  *)
(* moment they are issued until the time their owner was told, and not     *)
(* longer than the tolerances allow.                                       *)
THEOREM SessionsHold == Spec => []SessionsLastAsTold
  <1>1. LimiterInv => SessionsLastAsTold
    <2> SUFFICES ASSUME LimiterInv, NEW at \in 0..now, NEW skew \in -Skew..Skew
                 PROVE  LET token == Issue(Null, at + skew) IN
                          /\ now < at + skew + TTL => Verify(token, now)
                          /\ now >= at + TTL + Leeway + Skew => ~Verify(token, now)
      BY DEF SessionsLastAsTold
    <2>1. /\ now \in Nat /\ at \in Nat /\ at <= now
          /\ skew \in Int /\ -Skew <= skew /\ skew <= Skew
          /\ TTL \in Nat /\ Leeway \in Nat /\ Skew \in Nat /\ Second \in Nat \ {0}
          /\ Second <= Leeway /\ Skew <= Leeway
      BY LimitAssumption, ClockAssumption DEF LimiterInv, Clocks
    <2> DEFINE nbf == WholeSecond(at + skew)
               exp == WholeSecond(at + skew + TTL)
    <2>2. nbf \in Int /\ nbf <= at + skew
      BY <2>1, Division DEF WholeSecond
    <2>3. exp \in Int /\ exp <= at + skew + TTL /\ at + skew + TTL < exp + Second
      BY <2>1, Division DEF WholeSecond
    <2>4. Issue(Null, at + skew) = [sub |-> Null, nbf |-> nbf, exp |-> exp]
      BY DEF Issue
    <2> HIDE DEF nbf, exp
    <2>5. /\ now < at + skew + TTL => now < exp + Leeway /\ now >= nbf - Leeway
          /\ now >= at + TTL + Leeway + Skew => ~(now < exp + Leeway)
      BY <2>1, <2>2, <2>3
    <2> QED
      BY <2>4, <2>5 DEF Verify
  <1> QED
    BY LimiterInvariance, <1>1, PTL
=============================================================================
