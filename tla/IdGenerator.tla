------------------------------ MODULE IdGenerator ------------------------------
(***************************************************************************)
(* The identifiers of platform/id: a millisecond reading followed by       *)
(* random bytes, which New increments instead of drawing them again when   *)
(* the clock has not moved on since the last identifier (or has moved      *)
(* back).  New runs under a mutex, so one call is one step; the clock is   *)
(* read before the mutex is taken, so ms may be any earlier reading.       *)
(* Encoding keeps the order of the pair, so identifiers are the pairs.     *)
(***************************************************************************)
EXTENDS Naturals, FiniteSets

CONSTANTS
  Bytes,     \* length of the random part: 10
  MaxByte    \* largest value of a byte: 255

ASSUME EntropyAssumption == Bytes \in Nat /\ MaxByte \in Nat

Entropy == [1..Bytes -> 0..MaxByte]   \* the most significant byte first
Id == [ms : Nat, entropy : Entropy]

(* A generator that has not made an identifier yet. *)
NewGenerator == [ms |-> 0, entropy |-> [i \in 1..Bytes |-> 0]]

(* Mutant: the carry is dropped. *)
IncrementLast(entropy) ==
  [i \in 1..Bytes |-> IF i = Bytes THEN (entropy[i] + 1) % (MaxByte + 1) ELSE entropy[i]]

(* The loop runs from the last byte and goes on as long as a byte wraps    *)
(* around to 0, so a byte is reached when all behind it were at their end. *)
Reached(entropy, i) == \A j \in (i + 1)..Bytes : entropy[j] = MaxByte
Increment(entropy) ==
  [i \in 1..Bytes |->
     IF Reached(entropy, i) THEN (entropy[i] + 1) % (MaxByte + 1) ELSE entropy[i]]

(* The identifier New returns, which is also the generator's next state.   *)
New(last, ms, random) ==
  IF ms > last.ms THEN [ms |-> ms, entropy |-> random]
  ELSE [ms |-> last.ms, entropy |-> Increment(last.entropy)]

(* Order of the encoded strings: by time, then byte by byte. *)
Lower(e, f) == \E i \in 1..Bytes : e[i] < f[i] /\ \A j \in 1..(i - 1) : e[j] = f[j]
Less(i, j) == i.ms < j.ms \/ (i.ms = j.ms /\ Lower(i.entropy, j.entropy))

(* How often a random part can be incremented before it starts again at 0. *)
Room(entropy) == Cardinality({e \in Entropy : Lower(entropy, e)})
=============================================================================
