-------------------------- MODULE ProductImagesProofs --------------------------
(***************************************************************************)
(* TLAPS proofs about ProductImages, for any images, any number of images  *)
(* a product may have, any workers and any number of faults.               *)
(***************************************************************************)
EXTENDS ProductImages, FiniteSetTheorems, SequenceTheorems, TLAPS

-----------------------------------------------------------------------------
(* The inductive invariant. *)

(* The uploads of one request: different images, no more than are allowed. *)
Uploads ==
  {s \in Seq(Image) : /\ Len(s) <= MaxImages
                      /\ \A k, l \in 1..Len(s) : s[k] = s[l] => k = l}

Numbering == [Image -> Nat]

(* Slots 1..N are taken, each of them once. *)
Contiguous(r) ==
  /\ r \in Numbering
  /\ \A i \in Rows(r) : r[i] <= Cardinality(Rows(r))
  /\ \A i, j \in Rows(r) : r[i] = r[j] => i = j

Putting == [pc : {"put"}, op : {"publish", "add"}, new : Uploads, want : 1..MaxImages]
Asking == [pc : {"lock"}, op : {"add"}, new : Uploads]
AskingToDelete == [pc : {"lock"}, op : {"delete"}, new : {<< >>}, gone : Image]
Deleting == [pc : {"remove"}, op : {"delete"}, new : {<< >>}, gone : Image,
             mine : Numbering, goal : Numbering]
Writing == [pc : {"write"}, op : {"publish", "add"}, new : Uploads, next : Nat \ {0},
            mine : Numbering, goal : Numbering]
Renumbering == [pc : {"write"}, op : {"delete"}, new : {<< >>}, gone : Image, next : Nat \ {0},
                mine : Numbering, goal : Numbering]
Discarding == [pc : {"discard"}, new : Uploads \ {<< >>}]
Erasing == [pc : {"erase"}, gone : Image]

RequestState ==
  {Idle} \cup Putting \cup Asking \cup AskingToDelete \cup Deleting
    \cup Writing \cup Renumbering \cup Discarding \cup Erasing

StateOK ==
  /\ born \in BOOLEAN /\ lost \in BOOLEAN /\ caught = FALSE
  /\ Contiguous(rows)
  /\ Rows(rows) \subseteq used /\ objects \subseteq used /\ used \subseteq Image
  /\ faults \in Nat
  /\ req \in [Worker -> RequestState]
  /\ \A w \in Worker : req[w].pc = "put" => Len(req[w].new) < req[w].want

(* The Product lock is held while rows are changed - by everyone but the   *)
(* transaction that inserts the product itself.                            *)
Holding(r) == r.pc \in {"remove", "write"} /\ r.op # "publish"
Publishing(r) == r.pc \in {"put", "write"} /\ r.op = "publish"
Waits(r) == r = Idle \/ r \in AskingToDelete

LockOK ==
  /\ lock \in Worker \cup {Free}
  /\ \A w \in Worker : Holding(req[w]) <=> lock = w

(* Before the product is there, at most one request is at it. *)
BirthOK ==
  /\ ~born => rows = NoRows /\ lock = Free
  /\ \A w \in Worker :
       req[w].pc \in {"put", "lock", "write"} /\ req[w].op = "add" => born
  /\ \A w \in Worker : Publishing(req[w]) =>
       ~born /\ \A v \in Worker \ {w} : Waits(req[v])

(* The work that a transaction still has to do: the slots below next have  *)
(* their new holder, and the others are as they were committed, so that    *)
(* nobody is in a slot before its turn.                                    *)
PlanOK(r) ==
  /\ r.pc = "remove" =>
       r.gone \in Rows(rows) /\ r.mine = rows /\ r.goal = Removed(rows, r.gone)
  /\ r.pc = "write" =>
       /\ Contiguous(r.goal)
       /\ \A i \in Image : r.mine[i] = IF r.goal[i] < r.next THEN r.goal[i] ELSE rows[i]
       /\ \A i \in Rows(r.goal) : rows[i] = 0 \/ rows[i] >= r.goal[i]
  /\ r.pc = "write" /\ r.op # "delete" => Rows(r.goal) = Rows(rows) \cup Ids(r.new)
  /\ r.pc = "write" /\ r.op = "delete" =>
       r.gone \in Rows(rows) /\ Rows(r.goal) = Rows(rows) \ {r.gone}

(* The images of a request are its own, and have no row yet. *)
Coming(r) == IF r.pc \in {"put", "lock", "write"} THEN Ids(r.new) ELSE {}
Claimed(r) ==
  IF r.pc \in {"put", "lock", "write", "discard"} THEN Ids(r.new)
  ELSE IF r.pc = "erase" THEN {r.gone} ELSE {}

FreshOK ==
  /\ \A w \in Worker : Coming(req[w]) \cap Rows(rows) = {} /\ Claimed(req[w]) \subseteq used
  /\ \A v, w \in Worker : v # w => Coming(req[v]) \cap Claimed(req[w]) = {}
  /\ \A w \in Worker : req[w].pc = "erase" => req[w].gone \notin Rows(rows)

ObjectsOK ==
  ~lost =>
    /\ Rows(rows) \subseteq objects
    /\ \A w \in Worker :
         /\ Coming(req[w]) \subseteq objects
         /\ req[w].pc = "discard" => Ids(req[w].new) \cap Rows(rows) = {}

(* Objects that nobody will ever look for. *)
Orphans == {i \in objects : i \notin Rows(rows) /\ \A w \in Worker : i \notin Claimed(req[w])}
OrphansOK == Cardinality(Orphans) <= MaxImages * faults

IInv ==
  /\ StateOK
  /\ LockOK
  /\ BirthOK
  /\ \A w \in Worker : PlanOK(req[w])
  /\ FreshOK
  /\ ObjectsOK
  /\ OrphansOK

-----------------------------------------------------------------------------
(* Numberings. *)

LEMMA RowsAreFinite ==
  ASSUME NEW r
  PROVE  IsFiniteSet(Rows(r)) /\ Cardinality(Rows(r)) \in Nat
  BY ImagesAssumption, FS_Subset, FS_CardinalityType DEF Rows

(* With N rows in different slots of 1..N, no slot is empty. *)
LEMMA SlotsAreTaken ==
  ASSUME NEW r, Contiguous(r), NEW n \in 1..Cardinality(Rows(r))
  PROVE  \E i \in Rows(r) : r[i] = n
  <1> DEFINE f == [i \in Rows(r) |-> r[i]]
             slots == 1..Cardinality(Rows(r))
  <1>1. Cardinality(Rows(r)) \in Nat /\ IsFiniteSet(Rows(r))
    BY RowsAreFinite
  <1>2. \A i \in Rows(r) : r[i] \in slots
    BY <1>1 DEF Contiguous, Numbering, Rows
  <1>3. f \in Injection(Rows(r), slots)
    BY <1>2 DEF Contiguous, Injection, IsInjective
  <1>4. IsFiniteSet(slots) /\ Cardinality(slots) = Cardinality(Rows(r))
    BY <1>1, FS_Interval
  <1> HIDE DEF slots
  <1>5. f \in Surjection(Rows(r), slots)
    BY <1>3, <1>4, FS_Injection
  <1>6. n \in slots
    BY DEF slots
  <1> QED
    BY <1>5, <1>6 DEF Surjection

(* So as many rows are in the first m slots as there are slots. *)
LEMMA RowsUpTo ==
  ASSUME NEW r, Contiguous(r), NEW m \in 0..Cardinality(Rows(r))
  PROVE  /\ IsFiniteSet({j \in Rows(r) : r[j] <= m})
         /\ Cardinality({j \in Rows(r) : r[j] <= m}) = m
  <1> DEFINE S == {j \in Rows(r) : r[j] <= m}
             f == [j \in S |-> r[j]]
  <1>1. Cardinality(Rows(r)) \in Nat /\ IsFiniteSet(Rows(r))
    BY RowsAreFinite
  <1>2. f \in Injection(S, 1..m)
    BY <1>1 DEF Contiguous, Numbering, Rows, Injection, IsInjective
  <1>3. ASSUME NEW n \in 1..m PROVE \E j \in S : f[j] = n
    <2>1. n \in 1..Cardinality(Rows(r)) /\ n <= m
      BY <1>1
    <2> QED
      BY <2>1, SlotsAreTaken
  <1>4. f \in Bijection(S, 1..m)
    BY <1>2, <1>3 DEF Bijection, Injection, Surjection
  <1>5. IsFiniteSet(S)
    BY <1>1, FS_Subset
  <1>6. ExistsBijection(S, 1..m)
    BY <1>4 DEF ExistsBijection
  <1>7. Cardinality(1..m) = m
    BY <1>1, FS_Interval
  <1> HIDE DEF S
  <1>8. Cardinality(S) = m
    BY <1>5, <1>6, <1>7, FS_Bijection
  <1> QED
    BY <1>5, <1>8 DEF S

(* The row that is written as the n-th is the one with slot n. *)
LEMMA RowInTurn ==
  ASSUME NEW r, Contiguous(r), NEW n \in 1..Cardinality(Rows(r))
  PROVE  Nth(r, n) \in Rows(r) /\ r[Nth(r, n)] = n
  <1>1. Cardinality(Rows(r)) \in Nat
    BY RowsAreFinite
  <1>2. ASSUME NEW x \in Rows(r)
        PROVE  Cardinality({j \in Rows(r) : r[j] < r[x]}) = r[x] - 1
    <2>1. r[x] \in 1..Cardinality(Rows(r)) /\ r[x] - 1 \in 0..Cardinality(Rows(r))
      BY <1>1 DEF Contiguous, Numbering, Rows
    <2>2. {j \in Rows(r) : r[j] < r[x]} = {j \in Rows(r) : r[j] <= r[x] - 1}
      BY <2>1 DEF Contiguous, Numbering, Rows
    <2> QED
      BY <2>1, <2>2, RowsUpTo
  <1>3. PICK x \in Rows(r) : r[x] = n
    BY SlotsAreTaken
  <1>4. \E y \in Rows(r) : Cardinality({j \in Rows(r) : r[j] < r[y]}) = n - 1
    BY <1>2, <1>3
  <1> DEFINE i == Nth(r, n)
  <1>5. i \in Rows(r) /\ Cardinality({j \in Rows(r) : r[j] < r[i]}) = n - 1
    BY <1>4 DEF Nth
  <1> HIDE DEF i
  <1>6. r[i] - 1 = n - 1 /\ r[i] \in Nat
    BY <1>2, <1>5 DEF Contiguous, Numbering, Rows
  <1>7. r[i] = n
    BY <1>6
  <1> QED
    BY <1>5, <1>7 DEF i

LEMMA UploadsOfLength ==
  ASSUME NEW new \in Uploads
  PROVE  /\ Len(new) \in Nat /\ DOMAIN new = 1..Len(new)
         /\ Ids(new) \subseteq Image
         /\ IsFiniteSet(Ids(new)) /\ Cardinality(Ids(new)) = Len(new)
  <1>1. Len(new) \in Nat /\ DOMAIN new = 1..Len(new) /\ new \in [1..Len(new) -> Image]
    BY LenProperties DEF Uploads
  <1>2. new \in Bijection(1..Len(new), Ids(new))
    BY <1>1 DEF Uploads, Ids, Bijection, Injection, Surjection, IsInjective
  <1>3. ExistsBijection(1..Len(new), Ids(new))
    BY <1>2 DEF ExistsBijection
  <1>4. IsFiniteSet(1..Len(new)) /\ Cardinality(1..Len(new)) = Len(new)
    BY <1>1, FS_Interval
  <1>5. IsFiniteSet(Ids(new)) /\ Cardinality(Ids(new)) = Len(new)
    BY <1>3, <1>4, FS_Bijection
  <1>6. Ids(new) \subseteq Image
    BY <1>1 DEF Ids
  <1> QED
    BY <1>1, <1>5, <1>6

(* AppendImages keeps the numbers there are and goes on after them. *)
LEMMA AppendedRows ==
  ASSUME NEW r, Contiguous(r), NEW new \in Uploads, Ids(new) \cap Rows(r) = {}
  PROVE  /\ Contiguous(Appended(r, new))
         /\ Rows(Appended(r, new)) = Rows(r) \cup Ids(new)
         /\ \A i \in Image : r[i] = 0 \/ r[i] >= Appended(r, new)[i]
  <1> DEFINE N == Cardinality(Rows(r))
             place(i) == CHOOSE k \in DOMAIN new : new[k] = i
  <1>1. N \in Nat /\ IsFiniteSet(Rows(r))
    BY RowsAreFinite
  <1>2. /\ Len(new) \in Nat /\ DOMAIN new = 1..Len(new) /\ Ids(new) \subseteq Image
        /\ IsFiniteSet(Ids(new)) /\ Cardinality(Ids(new)) = Len(new)
    BY UploadsOfLength
  <1>3. \A i \in Ids(new) : place(i) \in 1..Len(new) /\ new[place(i)] = i
    BY <1>2 DEF Ids
  <1> HIDE DEF place
  <1>4. \A i \in Image : Appended(r, new)[i] = IF i \in Ids(new) THEN N + place(i) ELSE r[i]
    BY DEF Appended, place
  <1> PICK a : a = Appended(r, new)
    OBVIOUS
  <1>5. a \in Numbering
    <2>1. a = [i \in Image |-> a[i]]
      BY DEF Appended
    <2>2. \A i \in Image : a[i] \in Nat
      BY <1>1, <1>2, <1>3, <1>4 DEF Contiguous, Numbering
    <2> QED
      BY <2>1, <2>2 DEF Numbering
  <1> HIDE DEF N
  <1>6. \A i \in Rows(r) : r[i] \in 1..N /\ i \notin Ids(new)
    BY <1>1 DEF Contiguous, Numbering, Rows, N
  <1>7. Rows(a) = Rows(r) \cup Ids(new)
    BY <1>1, <1>2, <1>3, <1>4, <1>6 DEF Rows
  <1>8. Cardinality(Rows(a)) = N + Len(new)
    <2>1. Rows(r) \cap Ids(new) = {}
      OBVIOUS
    <2>2. Cardinality(Rows(r) \cap Ids(new)) = 0
      BY <2>1, FS_EmptySet
    <2>3. Cardinality(Rows(r) \cup Ids(new)) =
            Cardinality(Rows(r)) + Cardinality(Ids(new)) - Cardinality(Rows(r) \cap Ids(new))
      BY <1>1, <1>2, FS_Union
    <2> QED
      BY <1>1, <1>2, <1>7, <2>2, <2>3 DEF N
  <1>9. \A i \in Rows(a) : a[i] <= N + Len(new)
    <2>1. \A i \in Rows(r) : i \in Image
      BY DEF Rows
    <2> QED
      BY <1>1, <1>2, <1>3, <1>4, <1>6, <1>7, <2>1
  <1>10. ASSUME NEW i \in Rows(a), NEW j \in Rows(a), a[i] = a[j]
         PROVE  i = j
    <2>1. \A k \in Rows(r) : k \in Image /\ a[k] = r[k] /\ a[k] <= N
      BY <1>1, <1>4, <1>6 DEF Rows
    <2>2. \A k \in Ids(new) : a[k] = N + place(k) /\ a[k] > N
      BY <1>1, <1>2, <1>3, <1>4
    <2>3. CASE i \in Rows(r) /\ j \in Rows(r)
      BY <1>10, <2>1, <2>3 DEF Contiguous
    <2>4. CASE i \in Ids(new) /\ j \in Ids(new)
      <3>1. place(i) = place(j)
        BY <1>1, <1>2, <1>3, <1>10, <2>2, <2>4
      <3> QED
        BY <1>3, <2>4, <3>1
    <2>5. CASE \/ i \in Rows(r) /\ j \in Ids(new)
               \/ i \in Ids(new) /\ j \in Rows(r)
      BY <1>1, <1>5, <1>10, <2>1, <2>2, <2>5 DEF Numbering
    <2> QED
      BY <1>7, <2>3, <2>4, <2>5
  <1>11. Contiguous(a)
    BY <1>5, <1>8, <1>9, <1>10 DEF Contiguous
  <1>12. \A i \in Image : r[i] = 0 \/ r[i] >= a[i]
    BY <1>4, <1>5, <1>6 DEF Rows, Numbering
  <1> QED
    BY <1>7, <1>11, <1>12

(* RemoveImage moves everybody behind the gap up by one. *)
LEMMA RemovedRows ==
  ASSUME NEW r, Contiguous(r), NEW gone \in Rows(r)
  PROVE  /\ Contiguous(Removed(r, gone))
         /\ Rows(Removed(r, gone)) = Rows(r) \ {gone}
         /\ \A i \in Image : r[i] >= Removed(r, gone)[i]
  <1> DEFINE N == Cardinality(Rows(r))
             upTo(i) == {j \in Rows(r) : r[j] <= r[i]}
             others(i) == {j \in Rows(r) \ {gone} : r[j] <= r[i]}
  <1>1. N \in Nat /\ IsFiniteSet(Rows(r))
    BY RowsAreFinite
  <1>2. \A i \in Rows(r) : r[i] \in 1..N /\ i \in Image
    BY <1>1 DEF Contiguous, Numbering, Rows
  <1>3. ASSUME NEW i \in Rows(r) \ {gone}
        PROVE  Cardinality(others(i)) = IF r[i] < r[gone] THEN r[i] ELSE r[i] - 1
    <2>1. IsFiniteSet(upTo(i)) /\ Cardinality(upTo(i)) = r[i]
      <3>1. r[i] \in 0..N
        BY <1>1, <1>2
      <3> QED
        BY <3>1, RowsUpTo
    <2>2. others(i) = upTo(i) \ {gone}
      OBVIOUS
    <2>3. gone \in upTo(i) <=> ~(r[i] < r[gone])
      BY <1>2
    <2> HIDE DEF upTo, others
    <2> QED
      BY <2>1, <2>2, <2>3, FS_RemoveElement, ZenonT(40)
  <1>4. \A i \in Image : Removed(r, gone)[i] =
          IF i \in Rows(r) \ {gone} THEN Cardinality(others(i)) ELSE 0
    BY DEF Removed, Rows
  <1> HIDE DEF others
  <1> PICK a : a = Removed(r, gone)
    OBVIOUS
  <1>5. \A i \in Rows(r) \ {gone} : a[i] = IF r[i] < r[gone] THEN r[i] ELSE r[i] - 1
    BY <1>2, <1>3, <1>4
  <1>6. \A i \in Image \ (Rows(r) \ {gone}) : a[i] = 0
    BY <1>4
  <1>7. \A i \in Rows(r) \ {gone} : r[i] # r[gone]
    BY DEF Contiguous
  <1> HIDE DEF N
  <1>8. \A i \in Rows(r) \ {gone} : a[i] \in 1..(N - 1) /\ a[i] <= r[i]
    BY <1>1, <1>2, <1>5, <1>7
  <1>9. Rows(a) = Rows(r) \ {gone}
    BY <1>2, <1>6, <1>8 DEF Rows
  <1>10. a \in Numbering
    <2>1. a = [i \in Image |-> a[i]]
      BY DEF Removed
    <2>2. \A i \in Image : a[i] \in Nat
      BY <1>1, <1>6, <1>8
    <2> QED
      BY <2>1, <2>2 DEF Numbering
  <1>11. Cardinality(Rows(a)) = N - 1
    BY <1>1, <1>9, FS_RemoveElement DEF N
  <1>12. ASSUME NEW i \in Rows(a), NEW j \in Rows(a), a[i] = a[j]
         PROVE  i = j
    <2>1. r[i] = r[j]
      BY <1>1, <1>2, <1>5, <1>7, <1>9, <1>12
    <2> QED
      BY <1>9, <2>1 DEF Contiguous
  <1>13. Contiguous(a)
    BY <1>8, <1>9, <1>10, <1>11, <1>12 DEF Contiguous
  <1>14. \A i \in Image : r[i] >= a[i]
    BY <1>6, <1>8 DEF Contiguous, Numbering
  <1> QED
    BY <1>9, <1>13, <1>14

-----------------------------------------------------------------------------
(* What a request looks like at each of its steps. *)

LEMMA Shapes ==
  ASSUME StateOK, NEW w \in Worker
  PROVE  /\ req[w] \in RequestState
         /\ req[w].pc = "idle" => req[w] = Idle
         /\ req[w].pc = "put" => req[w] \in Putting
         /\ req[w].pc = "lock" => req[w] \in Asking \cup AskingToDelete
         /\ req[w].pc = "remove" => req[w] \in Deleting
         /\ req[w].pc = "write" => req[w] \in Writing \cup Renumbering
         /\ req[w].pc = "discard" => req[w] \in Discarding
         /\ req[w].pc = "erase" => req[w] \in Erasing
  <1>1. req[w] \in RequestState
    BY DEF StateOK
  <1> QED
    BY <1>1 DEF RequestState, Idle, Putting, Asking, AskingToDelete, Deleting, Writing,
                Renumbering, Discarding, Erasing

LEMMA NoUploads == << >> \in Uploads /\ Ids(<< >>) = {}
  BY ImagesAssumption, EmptySeq DEF Uploads, Ids

LEMMA UploadsOf ==
  ASSUME StateOK, NEW w \in Worker,
         req[w].pc \in {"put", "lock", "remove", "write", "discard"}
  PROVE  req[w].new \in Uploads
  BY Shapes, NoUploads
     DEF Putting, Asking, AskingToDelete, Deleting, Writing, Renumbering, Discarding

LEMMA ClaimIsSmall ==
  ASSUME StateOK, NEW w \in Worker
  PROVE  /\ IsFiniteSet(Claimed(req[w])) /\ Cardinality(Claimed(req[w])) \in 0..MaxImages
         /\ Coming(req[w]) \subseteq Claimed(req[w])
  <1>1. CASE req[w].pc \in {"put", "lock", "write", "discard"}
    <2>1. Len(req[w].new) <= MaxImages
      BY <1>1, UploadsOf DEF Uploads
    <2>2. /\ Len(req[w].new) \in Nat
          /\ IsFiniteSet(Ids(req[w].new)) /\ Cardinality(Ids(req[w].new)) = Len(req[w].new)
      BY <1>1, UploadsOf, UploadsOfLength
    <2>3. Cardinality(Ids(req[w].new)) \in 0..MaxImages
      BY <2>1, <2>2, ImagesAssumption
    <2> QED
      BY <1>1, <2>2, <2>3 DEF Claimed, Coming
  <1>2. CASE req[w].pc = "erase"
    <2>1. Claimed(req[w]) = {req[w].gone}
      BY <1>2 DEF Claimed
    <2>2. 1 \in 0..MaxImages
      BY ImagesAssumption
    <2> QED
      BY <1>2, <2>1, <2>2, FS_Singleton DEF Coming
  <1>3. CASE req[w].pc \notin {"put", "lock", "write", "discard", "erase"}
    <2>1. Claimed(req[w]) = {} /\ Coming(req[w]) = {}
      BY <1>3 DEF Claimed, Coming
    <2> QED
      BY <2>1, FS_EmptySet, ImagesAssumption
  <1> QED
    BY <1>1, <1>2, <1>3

LEMMA TailOfUploads ==
  ASSUME NEW new \in Uploads \ {<< >>}
  PROVE  /\ Tail(new) \in Uploads
         /\ Ids(new) = Ids(Tail(new)) \cup {Head(new)}
         /\ Head(new) \notin Ids(Tail(new))
  <1>1. new \in Seq(Image) /\ new # << >>
    BY DEF Uploads
  <1>2. /\ Tail(new) \in Seq(Image) /\ Len(new) \in Nat /\ Len(Tail(new)) = Len(new) - 1
        /\ \A k \in 1..Len(Tail(new)) : Tail(new)[k] = new[k + 1]
        /\ DOMAIN new = 1..Len(new) /\ DOMAIN Tail(new) = 1..Len(Tail(new))
        /\ Len(Tail(new)) \in Nat
    BY <1>1, HeadTailProperties, LenProperties
  <1>3. Head(new) = new[1]
    BY <1>1
  <1>4. Tail(new) \in Uploads
    <2>1. Len(new) <= MaxImages /\ \A k, l \in 1..Len(new) : new[k] = new[l] => k = l
      BY DEF Uploads
    <2>2. ASSUME NEW k \in 1..Len(Tail(new)), NEW l \in 1..Len(Tail(new)),
                 Tail(new)[k] = Tail(new)[l]
          PROVE  k = l
      <3>1. k + 1 \in 1..Len(new) /\ l + 1 \in 1..Len(new) /\ new[k + 1] = new[l + 1]
        BY <1>2, <2>2
      <3> QED
        BY <2>1, <3>1
    <2> PICK rest : rest = Tail(new)
      OBVIOUS
    <2>3. rest \in Seq(Image) /\ Len(rest) <= MaxImages
      BY <1>2, <2>1, ImagesAssumption
    <2>4. \A k, l \in 1..Len(rest) : rest[k] = rest[l] => k = l
      BY <2>2
    <2> QED
      BY <2>3, <2>4 DEF Uploads
  <1>5. Ids(new) = Ids(Tail(new)) \cup {Head(new)}
    <2>1. ASSUME NEW k \in 1..Len(new) PROVE new[k] \in Ids(Tail(new)) \cup {Head(new)}
      <3>1. CASE k = 1
        BY <1>3, <3>1
      <3>2. CASE k # 1
        <4>1. k - 1 \in 1..Len(Tail(new)) /\ Tail(new)[k - 1] = new[k]
          BY <1>2, <3>2
        <4> QED
          BY <1>2, <4>1 DEF Ids
      <3> QED
        BY <3>1, <3>2
    <2>2. ASSUME NEW k \in 1..Len(Tail(new)) PROVE Tail(new)[k] \in Ids(new)
      <3>1. k + 1 \in 1..Len(new)
        BY <1>2
      <3> QED
        BY <1>2, <3>1 DEF Ids
    <2>3. Head(new) \in Ids(new)
      BY <1>2, <1>3 DEF Ids
    <2> QED
      BY <1>2, <2>1, <2>2, <2>3 DEF Ids
  <1>6. ASSUME NEW k \in 1..Len(Tail(new)) PROVE Tail(new)[k] # Head(new)
    <2>1. k + 1 \in 1..Len(new) /\ 1 \in 1..Len(new) /\ k + 1 # 1
      BY <1>2
    <2> QED
      BY <1>2, <1>3, <2>1 DEF Uploads
  <1> QED
    BY <1>2, <1>4, <1>5, <1>6 DEF Ids

(* A failed request throws away exactly what it stored. *)
LEMMA CleansUp ==
  ASSUME NEW new \in Uploads
  PROVE  LET r == Cleanup(new) IN
         /\ r \in RequestState /\ r.pc \in {"idle", "discard"}
         /\ Claimed(r) = Ids(new) /\ Coming(r) = {}
         /\ r.pc = "discard" => r.new = new
         /\ PlanOK(r) /\ ~Holding(r) /\ ~Publishing(r)
         /\ new = << >> => r = Idle
  <1>1. CASE new = << >>
    BY <1>1, NoUploads DEF Cleanup, Idle, RequestState, Claimed, Coming, PlanOK, Holding, Publishing
  <1>2. CASE new # << >>
    <2>1. Cleanup(new) = [pc |-> "discard", new |-> new]
      BY <1>2 DEF Cleanup
    <2>2. Cleanup(new) \in Discarding
      BY <1>2, <2>1 DEF Discarding
    <2> QED
      BY <1>2, <2>1, <2>2 DEF RequestState, Claimed, Coming, PlanOK, Holding, Publishing
  <1> QED
    BY <1>1, <1>2

LEMMA Becoming ==
  ASSUME StateOK, NEW w \in Worker, NEW r \in RequestState, Become(w, r)
  PROVE  /\ req' \in [Worker -> RequestState]
         /\ req'[w] = r
         /\ \A v \in Worker \ {w} : req'[v] = req[v]
  BY DEF Become, StateOK

-----------------------------------------------------------------------------
(* Orphans. *)

LEMMA OrphansStay ==
  ASSUME StateOK, OrphansOK, faults' = faults,
         \A i \in Orphans' : i \in Orphans
  PROVE  OrphansOK'
  <1>1. IsFiniteSet(Orphans)
    BY ImagesAssumption, FS_Subset DEF StateOK, Orphans
  <1>2. Cardinality(Orphans) \in Nat /\ Cardinality(Orphans') <= Cardinality(Orphans)
        /\ Cardinality(Orphans') \in Nat
    BY <1>1, FS_Subset, FS_CardinalityType
  <1> QED
    BY <1>2, ImagesAssumption DEF OrphansOK, StateOK

(* One fault abandons the objects of one request at most. *)
LEMMA OrphansOfOneFault ==
  ASSUME StateOK, OrphansOK, faults' = faults + 1,
         NEW X, IsFiniteSet(X), Cardinality(X) <= MaxImages,
         \A i \in Orphans' : i \in Orphans \cup X
  PROVE  OrphansOK'
  <1>1. IsFiniteSet(Orphans) /\ Cardinality(Orphans) \in Nat
    BY ImagesAssumption, FS_Subset, FS_CardinalityType DEF StateOK, Orphans
  <1> DEFINE both == Orphans \cup X
  <1>2. /\ IsFiniteSet(both)
        /\ Cardinality(both) = Cardinality(Orphans) + Cardinality(X) - Cardinality(Orphans \cap X)
    BY <1>1, FS_Union
  <1>3. Cardinality(Orphans \cap X) \in Nat /\ Cardinality(X) \in Nat
    BY <1>1, FS_Intersection, FS_CardinalityType
  <1>4. Cardinality(Orphans') <= Cardinality(both) /\ Cardinality(Orphans') \in Nat
    BY <1>2, FS_Subset, FS_CardinalityType
  <1> HIDE DEF both
  <1>5. Cardinality(both) <= Cardinality(Orphans) + MaxImages /\ Cardinality(both) \in Nat
    BY <1>1, <1>2, <1>3, ImagesAssumption, FS_CardinalityType
  <1>6. MaxImages * (faults + 1) = MaxImages * faults + MaxImages
        /\ MaxImages * faults \in Nat
    BY ImagesAssumption DEF StateOK
  <1>7. Cardinality(Orphans) <= MaxImages * faults
    BY DEF OrphansOK
  <1> QED
    BY <1>1, <1>4, <1>5, <1>6, <1>7, ImagesAssumption DEF OrphansOK

-----------------------------------------------------------------------------
(* Steps of one request that change neither rows nor objects. *)

(* What the next state r of a request must be like: it holds the lock if   *)
(* it needs to, knows its plan, and claims nothing new.                    *)
Moves(w, r) ==
  /\ r \in RequestState /\ Become(w, r)
  /\ UNCHANGED <<born, rows, objects, used, lost, caught>>
  /\ lock' = IF Holding(r) THEN w ELSE IF lock = w THEN Free ELSE lock
  /\ Holding(r) => lock \in {Free, w}
  /\ PlanOK(r)
  /\ Claimed(r) \subseteq Claimed(req[w]) /\ Coming(r) \subseteq Coming(req[w])
  /\ r.pc = "put" => Len(r.new) < r.want
  /\ r.pc = "discard" => Ids(r.new) \cap Rows(rows) = {} \/ lost
  /\ r.pc # "erase"
  /\ Publishing(r) => Publishing(req[w]) \/ (~born /\ \A v \in Worker : req[v] = Idle)
  /\ r.pc \in {"put", "lock", "write"} /\ r.op = "add" => born
  /\ Waits(req[w]) => \/ Waits(r) \/ born
                      \/ \A v \in Worker : req[v] = Idle
  /\ \/ faults' = faults /\ Claimed(r) = Claimed(req[w])
     \/ faults' = faults + 1

LEMMA MovingKeepsInv ==
  ASSUME IInv, NEW w \in Worker, NEW r, Moves(w, r)
  PROVE  IInv'
  <1>1. /\ req' \in [Worker -> RequestState]
        /\ req'[w] = r
        /\ \A v \in Worker \ {w} : req'[v] = req[v]
    BY Becoming DEF IInv, Moves
  <1>2. UNCHANGED <<born, rows, objects, used, lost, caught>>
    BY DEF Moves
  <1>3. StateOK'
    <2>1. Contiguous(rows)' /\ (Rows(rows) \subseteq used /\ objects \subseteq used)'
      BY <1>2 DEF IInv, StateOK
    <2>2. (\A v \in Worker : req[v].pc = "put" => Len(req[v].new) < req[v].want)'
      BY <1>1 DEF IInv, StateOK, Moves
    <2>3. faults' \in Nat
      BY DEF IInv, StateOK, Moves
    <2> QED
      BY <1>1, <1>2, <2>1, <2>2, <2>3 DEF IInv, StateOK
  <1>4. LockOK'
    <2>1. lock' \in Worker \cup {Free}
      BY DEF IInv, LockOK, Moves
    <2>2. \A v \in Worker : Holding(req[v]) <=> lock = v
      BY DEF IInv, LockOK
    <2>3. Holding(req'[w]) <=> lock' = w
      BY <1>1, WorkerAssumption DEF Moves, Free
    <2>4. \A v \in Worker \ {w} : Holding(req'[v]) <=> lock' = v
      BY <1>1, <2>2, WorkerAssumption DEF Moves, Free
    <2> QED
      BY <2>1, <2>3, <2>4 DEF LockOK
  <1>5. BirthOK'
    <2>1. ~born => rows = NoRows /\ lock' = Free
      <3>1. ASSUME ~born, Holding(r) PROVE FALSE
        <4>1. r.pc = "remove" \/ (r.pc = "write" /\ r.op = "delete")
          BY <3>1 DEF Holding, Moves, RequestState, Idle, Putting, Asking, AskingToDelete,
                      Deleting, Writing, Renumbering, Discarding, Erasing
        <4>2. r.gone \in Rows(rows)
          BY <4>1 DEF Moves, PlanOK
        <4>3. rows = NoRows
          BY <3>1 DEF IInv, BirthOK
        <4> QED
          BY <4>2, <4>3 DEF Rows, NoRows
      <3> QED
        BY <3>1 DEF IInv, BirthOK, Moves
    <2>2. \A v \in Worker : req'[v].pc \in {"put", "lock", "write"} /\ req'[v].op = "add" => born
      BY <1>1 DEF IInv, BirthOK, Moves
    <2>3. \A v \in Worker : Publishing(req[v]) =>
            ~born /\ \A u \in Worker \ {v} : Waits(req[u])
      BY DEF IInv, BirthOK
    <2>4. Publishing(req'[w]) => ~born /\ \A u \in Worker \ {w} : Waits(req'[u])
      BY <1>1, <2>3 DEF Moves, Waits
    <2>5. ASSUME NEW v \in Worker \ {w}, Publishing(req'[v])
          PROVE  ~born /\ \A u \in Worker \ {v} : Waits(req'[u])
      <3>1. Publishing(req[v])
        BY <1>1, <2>5
      <3>2. ~born /\ Waits(req[w]) /\ \A u \in Worker \ {v, w} : Waits(req'[u])
        BY <1>1, <2>3, <3>1
      <3>3. req[v] # Idle
        BY <3>1 DEF Publishing, Idle
      <3>4. Waits(r)
        BY <3>2, <3>3 DEF Moves
      <3> QED
        BY <1>1, <3>2, <3>4
    <2> QED
      BY <1>2, <2>1, <2>2, <2>4, <2>5 DEF BirthOK
  <1>6. \A v \in Worker : PlanOK(req[v])'
    <2>1. \A v \in Worker : PlanOK(req'[v])
      BY <1>1 DEF IInv, Moves
    <2> QED
      BY <1>2, <2>1 DEF PlanOK
  <1>7. FreshOK'
    <2>1. \A v \in Worker : Coming(req'[v]) \subseteq Coming(req[v])
                            /\ Claimed(req'[v]) \subseteq Claimed(req[v])
      BY <1>1 DEF Moves
    <2>2. \A v \in Worker : Coming(req'[v]) \cap Rows(rows) = {} /\ Claimed(req'[v]) \subseteq used
      BY <2>1 DEF IInv, FreshOK
    <2>3. \A u, v \in Worker : u # v => Coming(req'[u]) \cap Claimed(req'[v]) = {}
      BY <2>1 DEF IInv, FreshOK
    <2>4. \A v \in Worker : req'[v].pc = "erase" => req'[v].gone \notin Rows(rows)
      BY <1>1 DEF IInv, FreshOK, Moves
    <2> QED
      BY <1>2, <2>2, <2>3, <2>4 DEF FreshOK
  <1>8. ObjectsOK'
    <2>1. \A v \in Worker : Coming(req'[v]) \subseteq Coming(req[v])
      BY <1>1 DEF Moves
    <2>2. ASSUME ~lost
          PROVE  /\ Rows(rows) \subseteq objects
                 /\ \A v \in Worker : Coming(req'[v]) \subseteq objects
                 /\ \A v \in Worker : req'[v].pc = "discard" => Ids(req'[v].new) \cap Rows(rows) = {}
      BY <1>1, <2>1, <2>2 DEF IInv, ObjectsOK, Moves
    <2> QED
      BY <1>2, <2>2 DEF ObjectsOK
  <1>9. OrphansOK'
    <2>1. CASE faults' = faults /\ Claimed(r) = Claimed(req[w])
      <3>1. \A v \in Worker : Claimed(req'[v]) = Claimed(req[v])
        BY <1>1, <2>1
      <3>2. \A i \in Orphans' : i \in Orphans
        BY <1>2, <3>1 DEF Orphans
      <3> QED
        BY <2>1, <3>2, OrphansStay DEF IInv
    <2>2. CASE faults' = faults + 1
      <3>1. \A i \in Orphans' : i \in Orphans \cup Claimed(req[w])
        BY <1>1, <1>2 DEF Orphans
      <3>2. IsFiniteSet(Claimed(req[w])) /\ Cardinality(Claimed(req[w])) <= MaxImages
        BY ClaimIsSmall DEF IInv
      <3> QED
        BY <2>2, <3>1, <3>2, OrphansOfOneFault DEF IInv
    <2> QED
      BY <2>1, <2>2 DEF Moves
  <1> QED
    BY <1>3, <1>4, <1>5, <1>6, <1>7, <1>8, <1>9 DEF IInv

LEMMA NoRowsContiguous == Contiguous(NoRows) /\ Rows(NoRows) = {}
  <1>1. Rows(NoRows) = {}
    BY DEF Rows, NoRows
  <1>2. NoRows \in Numbering
    BY DEF NoRows, Numbering
  <1> QED
    BY <1>1, <1>2 DEF Contiguous

(* The order the rows of a new product are inserted in. *)
LEMMA InsertingIsPlanned ==
  ASSUME IInv, ~born, NEW new \in Uploads
  PROVE  /\ Inserting(new) \in Writing /\ PlanOK(Inserting(new))
         /\ Inserting(new).pc = "write" /\ Inserting(new).op = "publish"
         /\ Inserting(new).new = new
  <1> PICK goal : goal = Appended(NoRows, new)
    OBVIOUS
  <1>1. rows = NoRows
    BY DEF IInv, BirthOK
  <1>2. /\ Contiguous(goal)
        /\ Rows(goal) = Rows(NoRows) \cup Ids(new)
    BY NoRowsContiguous, AppendedRows
  <1>3. Inserting(new) = [pc |-> "write", op |-> "publish", new |-> new, next |-> 1,
                          mine |-> NoRows, goal |-> goal]
    BY DEF Inserting
  <1>4. goal \in Numbering /\ NoRows \in Numbering
    BY <1>2, NoRowsContiguous DEF Contiguous
  <1>5. Inserting(new) \in Writing
    BY <1>3, <1>4 DEF Writing
  <1>6. \A i \in Image : NoRows[i] = IF goal[i] < 1 THEN goal[i] ELSE rows[i]
    BY <1>1, <1>4 DEF Numbering, NoRows
  <1>7. \A i \in Rows(goal) : rows[i] = 0
    BY <1>1 DEF NoRows, Rows
  <1>8. PlanOK(Inserting(new))
    BY <1>1, <1>2, <1>3, <1>6, <1>7 DEF PlanOK
  <1> QED
    BY <1>3, <1>5, <1>8

LEMMA BeginPublishMoves ==
  ASSUME IInv, NEW w \in Worker, NEW n \in 0..MaxImages, BeginPublish(w, n)
  PROVE  \E r : Moves(w, r)
  <1> PICK r : r = IF n = 0 THEN Inserting(<< >>)
                   ELSE [pc |-> "put", op |-> "publish", new |-> << >>, want |-> n]
    OBVIOUS
  <1>1. /\ ~born /\ req[w] = Idle /\ \A v \in Worker : req[v] = Idle
        /\ Become(w, r)
        /\ UNCHANGED <<born, rows, objects, used, lock, faults, lost, caught>>
    BY DEF BeginPublish
  <1>2. /\ r \in RequestState /\ PlanOK(r) /\ r.pc \in {"put", "write"} /\ r.op = "publish"
        /\ r.new = << >>
        /\ r.pc = "put" => Len(r.new) < r.want
    <2>1. CASE n = 0
      BY <1>1, <2>1, NoUploads, InsertingIsPlanned DEF RequestState
    <2>2. CASE n # 0
      <3>1. r = [pc |-> "put", op |-> "publish", new |-> << >>, want |-> n] /\ n \in 1..MaxImages
        BY <2>2, ImagesAssumption
      <3>2. r \in Putting
        BY <3>1, NoUploads DEF Putting
      <3>3. Len(<< >>) < n
        BY <3>1, ImagesAssumption
      <3> QED
        BY <3>1, <3>2, <3>3 DEF RequestState, PlanOK
    <2> QED
      BY <2>1, <2>2
  <1>3. Claimed(r) = {} /\ Coming(r) = {} /\ Claimed(req[w]) = {} /\ ~Holding(r) /\ Publishing(r)
    BY <1>1, <1>2, NoUploads DEF Claimed, Coming, Idle, Holding, Publishing
  <1>4. lock # w
    BY <1>1, WorkerAssumption DEF IInv, BirthOK, Free
  <1> QED
    BY <1>1, <1>2, <1>3, <1>4 DEF Moves

LEMMA BeginAddMoves ==
  ASSUME IInv, NEW w \in Worker, NEW n \in 1..MaxImages, BeginAdd(w, n)
  PROVE  \E r : Moves(w, r)
  <1> PICK r : r = [pc |-> "put", op |-> "add", new |-> << >>, want |-> n]
    OBVIOUS
  <1>1. born /\ req[w] = Idle /\ Become(w, r)
        /\ UNCHANGED <<born, rows, objects, used, lock, faults, lost, caught>>
    BY DEF BeginAdd
  <1>2. Len(r.new) < r.want
    BY ImagesAssumption
  <1>3. r \in RequestState
    BY NoUploads DEF RequestState, Putting
  <1>4. /\ Claimed(r) = {} /\ Coming(r) = {} /\ Claimed(req[w]) = {} /\ PlanOK(r)
        /\ ~Holding(r) /\ ~Publishing(r) /\ ~Holding(req[w])
    BY <1>1, NoUploads DEF Claimed, Coming, Idle, PlanOK, Holding, Publishing
  <1>5. lock # w
    BY <1>4 DEF IInv, LockOK
  <1> QED
    BY <1>1, <1>2, <1>3, <1>4, <1>5 DEF Moves

LEMMA BeginDeleteMoves ==
  ASSUME IInv, NEW w \in Worker, NEW i \in Image, BeginDelete(w, i)
  PROVE  \E r : Moves(w, r)
  <1> PICK r : r = [pc |-> "lock", op |-> "delete", new |-> << >>, gone |-> i]
    OBVIOUS
  <1>1. req[w] = Idle /\ Become(w, r)
        /\ UNCHANGED <<born, rows, objects, used, lock, faults, lost, caught>>
    BY DEF BeginDelete
  <1>2. r \in AskingToDelete
    BY DEF AskingToDelete
  <1>3. /\ Claimed(r) = {} /\ Coming(r) = {} /\ Claimed(req[w]) = {} /\ PlanOK(r)
        /\ ~Holding(r) /\ ~Publishing(r) /\ ~Holding(req[w]) /\ Waits(r)
    BY <1>1, <1>2, NoUploads DEF Claimed, Coming, Idle, PlanOK, Holding, Publishing, Waits
  <1>4. lock # w
    BY <1>3 DEF IInv, LockOK
  <1> QED
    BY <1>1, <1>2, <1>3, <1>4 DEF Moves, RequestState

(* A request that gives up discards what it stored and lets go of the lock. *)
LEMMA GivingUpMoves ==
  ASSUME IInv, NEW w \in Worker, req[w].pc \in {"put", "lock", "remove", "write"},
         Become(w, Cleanup(req[w].new)),
         UNCHANGED <<born, rows, objects, used, faults, lost, caught>>,
         lock' = IF lock = w THEN Free ELSE lock
  PROVE  \E r : Moves(w, r)
  <1> PICK r : r = Cleanup(req[w].new)
    OBVIOUS
  <1>1. req[w].new \in Uploads
    BY UploadsOf DEF IInv
  <1>2. /\ r \in RequestState /\ r.pc \in {"idle", "discard"}
        /\ Claimed(r) = Ids(req[w].new) /\ Coming(r) = {}
        /\ r.pc = "discard" => r.new = req[w].new
        /\ PlanOK(r) /\ ~Holding(r) /\ ~Publishing(r)
        /\ req[w].new = << >> => r = Idle
    BY <1>1, CleansUp
  <1>3. Claimed(req[w]) = Ids(req[w].new)
    <2>1. CASE req[w].pc = "remove"
      BY <2>1, Shapes, NoUploads DEF IInv, Deleting, Claimed
    <2>2. CASE req[w].pc # "remove"
      BY <2>2 DEF Claimed
    <2> QED
      BY <2>1, <2>2
  <1>4. Ids(req[w].new) \cap Rows(rows) = {}
    <2>1. CASE req[w].pc = "remove"
      BY <2>1, Shapes, NoUploads DEF IInv, Deleting
    <2>2. CASE req[w].pc # "remove"
      BY <2>2 DEF IInv, FreshOK, Coming
    <2> QED
      BY <2>1, <2>2
  <1>5. Waits(req[w]) => Waits(r)
    BY <1>2 DEF Waits, AskingToDelete, Idle
  <1> QED
    BY <1>2, <1>3, <1>4, <1>5 DEF Moves

LEMMA FailuresMove ==
  ASSUME IInv, NEW w \in Worker, PutFails(w) \/ Refuse(w) \/ Abort(w)
  PROVE  \E r : Moves(w, r)
  <1>1. CASE PutFails(w)
    <2>1. lock # w
      BY <1>1 DEF PutFails, IInv, LockOK, Holding
    <2> QED
      BY <1>1, <2>1, GivingUpMoves DEF PutFails
  <1>2. CASE Refuse(w)
    <2>1. lock # w
      BY <1>2, WorkerAssumption DEF Refuse, Free
    <2> QED
      BY <1>2, <2>1, GivingUpMoves DEF Refuse
  <1>3. CASE Abort(w)
    <2>1. req[w].pc \in {"remove", "write"} /\ lock' = Free
      BY <1>3 DEF Abort
    <2>2. Holding(req[w]) \/ Publishing(req[w])
      <3>1. req[w] \in Deleting \cup Writing \cup Renumbering
        BY <2>1, Shapes DEF IInv
      <3> QED
        BY <2>1, <3>1 DEF Holding, Publishing, Deleting, Writing, Renumbering
    <2>3. lock = w \/ lock = Free
      BY <2>2 DEF IInv, LockOK, BirthOK
    <2> QED
      BY <1>3, <2>1, <2>3, GivingUpMoves DEF Abort
  <1> QED
    BY <1>1, <1>2, <1>3

(* The new order is made from the rows as they are under the lock. *)
LEMMA LockProductMoves ==
  ASSUME IInv, NEW w \in Worker, LockProduct(w)
  PROVE  \E r : Moves(w, r)
  <1>1. /\ req[w].pc = "lock" /\ lock = Free /\ lock' = w
        /\ UNCHANGED <<born, rows, objects, used, faults, lost, caught>>
    BY DEF LockProduct
  <1>2. Contiguous(rows)
    BY DEF IInv, StateOK
  <1>3. CASE req[w].op = "add"
    <2>1. req[w] \in Asking
      BY <1>1, <1>3, Shapes DEF IInv, AskingToDelete
    <2> PICK new : new = req[w].new
      OBVIOUS
    <2> PICK goal : goal = Appended(rows, new)
      OBVIOUS
    <2> PICK r : r = [pc |-> "write", op |-> "add", new |-> new, next |-> 1,
                      mine |-> rows, goal |-> goal]
      OBVIOUS
    <2>2. Become(w, r)
      BY <1>3 DEF LockProduct
    <2>3. new \in Uploads /\ Ids(new) \cap Rows(rows) = {}
      BY <1>1, <2>1 DEF Asking, IInv, FreshOK, Coming
    <2>4. /\ Contiguous(goal)
          /\ Rows(goal) = Rows(rows) \cup Ids(new)
          /\ \A i \in Image : rows[i] = 0 \/ rows[i] >= goal[i]
      BY <1>2, <2>3, AppendedRows
    <2>5. goal \in Numbering /\ rows \in Numbering
      BY <1>2, <2>4 DEF Contiguous
    <2>6. r \in RequestState
      BY <2>3, <2>5 DEF RequestState, Writing
    <2>7. \A i \in Image : rows[i] = IF goal[i] < 1 THEN goal[i] ELSE rows[i]
      BY <2>4, <2>5 DEF Numbering, Rows
    <2>8. PlanOK(r)
      BY <2>4, <2>7 DEF PlanOK, Rows
    <2>9. /\ Claimed(r) = Claimed(req[w]) /\ Coming(r) = Coming(req[w])
          /\ Holding(r) /\ ~Publishing(r) /\ born
      BY <1>1, <1>3 DEF Claimed, Coming, Holding, Publishing, IInv, BirthOK
    <2> QED
      BY <1>1, <2>2, <2>6, <2>8, <2>9 DEF Moves
  <1>4. CASE req[w].op = "delete"
    <2>1. req[w] \in AskingToDelete
      BY <1>1, <1>4, Shapes DEF IInv, Asking
    <2> PICK gone : gone = req[w].gone
      OBVIOUS
    <2> PICK goal : goal = Removed(rows, gone)
      OBVIOUS
    <2> PICK r : r = [pc |-> "remove", op |-> "delete", new |-> << >>, gone |-> gone,
                      mine |-> rows, goal |-> goal]
      OBVIOUS
    <2>2. Become(w, r) /\ gone \in Rows(rows)
      BY <1>4 DEF LockProduct
    <2>3. Contiguous(goal)
      BY <1>2, <2>2, RemovedRows
    <2>4. goal \in Numbering /\ rows \in Numbering /\ gone \in Image
      BY <1>2, <2>1, <2>3 DEF Contiguous, AskingToDelete
    <2>5. r \in RequestState
      BY <2>4 DEF RequestState, Deleting
    <2>6. PlanOK(r)
      BY <2>2 DEF PlanOK
    <2>7. Claimed(r) = {} /\ Coming(r) = {} /\ Claimed(req[w]) = {}
      BY <1>1, <2>1, NoUploads DEF Claimed, Coming, AskingToDelete
    <2>8. Holding(r) /\ ~Publishing(r)
      BY DEF Holding, Publishing
    <2>9. born
      BY <2>2 DEF IInv, BirthOK, NoRows, Rows
    <2> QED
      BY <1>1, <2>2, <2>5, <2>6, <2>7, <2>8, <2>9 DEF Moves
  <1> QED
    BY <1>3, <1>4 DEF LockProduct

LEMMA DeleteRowMoves ==
  ASSUME IInv, NEW w \in Worker, DeleteRow(w)
  PROVE  \E r : Moves(w, r)
  <1> PICK old : old = req[w]
    OBVIOUS
  <1> PICK gone, goal : gone = old.gone /\ goal = old.goal
    OBVIOUS
  <1> PICK mine : mine = [old.mine EXCEPT ![gone] = 0]
    OBVIOUS
  <1> PICK r : r = [pc |-> "write", op |-> "delete", new |-> << >>, gone |-> gone,
                    next |-> 1, mine |-> mine, goal |-> goal]
    OBVIOUS
  <1>1. /\ old.pc = "remove" /\ Become(w, r)
        /\ UNCHANGED <<born, rows, objects, used, lock, faults, lost, caught>>
    BY DEF DeleteRow
  <1>2. old \in Deleting /\ PlanOK(old)
    BY <1>1, Shapes DEF IInv
  <1>3. gone \in Rows(rows) /\ old.mine = rows /\ goal = Removed(rows, gone)
    BY <1>1, <1>2 DEF PlanOK
  <1>4. Contiguous(rows)
    BY DEF IInv, StateOK
  <1>5. /\ Contiguous(goal)
        /\ Rows(goal) = Rows(rows) \ {gone}
        /\ \A i \in Image : rows[i] >= goal[i]
    BY <1>3, <1>4, RemovedRows
  <1>6. goal \in Numbering /\ rows \in Numbering /\ gone \in Image
    BY <1>3, <1>4, <1>5 DEF Contiguous, Rows
  <1>7. mine \in Numbering
    BY <1>3, <1>6 DEF Numbering
  <1>8. \A i \in Image : mine[i] = IF goal[i] < 1 THEN goal[i] ELSE rows[i]
    <2>1. \A i \in Image : mine[i] = IF i = gone THEN 0 ELSE rows[i]
      BY <1>3, <1>6 DEF Numbering
    <2> QED
      BY <1>5, <1>6, <2>1 DEF Numbering, Rows
  <1>9. PlanOK(r)
    BY <1>3, <1>5, <1>8 DEF PlanOK, Rows
  <1>10. r \in RequestState
    BY <1>6, <1>7 DEF RequestState, Renumbering
  <1>11. Claimed(r) = {} /\ Coming(r) = {} /\ Claimed(old) = {}
    BY <1>1, NoUploads DEF Claimed, Coming
  <1>12. Holding(r) /\ ~Publishing(r) /\ lock = w /\ ~Waits(old)
    BY <1>1, <1>2 DEF Holding, Publishing, Deleting, Waits, Idle, AskingToDelete, IInv, LockOK
  <1> QED
    BY <1>1, <1>9, <1>10, <1>11, <1>12 DEF Moves

(* The row whose turn it is finds its slot empty, so the index lets it in. *)
LEMMA WriteRowMoves ==
  ASSUME IInv, NEW w \in Worker, WriteRow(w)
  PROVE  \E r : Moves(w, r)
  <1> PICK old : old = req[w]
    OBVIOUS
  <1> PICK goal, mine, next : goal = old.goal /\ mine = old.mine /\ next = old.next
    OBVIOUS
  <1> PICK i : i = Nth(goal, next)
    OBVIOUS
  <1> PICK r : r = [old EXCEPT !.mine[i] = goal[i], !.next = @ + 1]
    OBVIOUS
  <1>1. /\ old.pc = "write" /\ next <= Cardinality(Rows(goal))
        /\ IF \E j \in Image \ {i} : mine[j] = goal[i]
           THEN caught' = TRUE
           ELSE Become(w, r) /\ UNCHANGED <<caught, lock>>
        /\ UNCHANGED <<born, rows, objects, used, faults, lost>>
    BY DEF WriteRow
  <1>2. old \in Writing \cup Renumbering /\ PlanOK(old)
    BY <1>1, Shapes DEF IInv
  <1>3. next \in Nat \ {0} /\ mine \in Numbering /\ goal \in Numbering
    BY <1>2 DEF Writing, Renumbering
  <1>4. Contiguous(goal) /\ Cardinality(Rows(goal)) \in Nat
    BY <1>1, <1>2, RowsAreFinite DEF PlanOK
  <1>5. i \in Rows(goal) /\ goal[i] = next
    BY <1>1, <1>3, <1>4, RowInTurn
  <1>6. /\ \A j \in Image : mine[j] = IF goal[j] < next THEN goal[j] ELSE rows[j]
        /\ \A j \in Rows(goal) : rows[j] = 0 \/ rows[j] >= goal[j]
    BY <1>1, <1>2 DEF PlanOK
  <1>7. ASSUME NEW j \in Image \ {i} PROVE mine[j] # goal[i]
    <2>1. CASE goal[j] < next
      BY <1>3, <1>5, <1>6, <2>1 DEF Numbering
    <2>2. CASE ~(goal[j] < next)
      <3>1. goal[j] \in Nat /\ goal[j] >= next /\ j \in Rows(goal)
        BY <1>3, <2>2 DEF Numbering, Rows
      <3>2. goal[j] # next
        BY <1>4, <1>5, <3>1 DEF Contiguous
      <3>3. rows[j] \in Nat
        BY DEF IInv, StateOK, Contiguous, Numbering
      <3> QED
        BY <1>3, <1>5, <1>6, <2>2, <3>1, <3>2, <3>3
    <2> QED
      BY <2>1, <2>2
  <1>8. Become(w, r) /\ UNCHANGED <<caught, lock>>
    BY <1>1, <1>7
  <1>9. i \in Image
    BY <1>5 DEF Rows
  <1> PICK slots : slots = [mine EXCEPT ![i] = goal[i]]
    OBVIOUS
  <1>10. /\ r.pc = "write" /\ r.op = old.op /\ r.new = old.new /\ r.goal = goal
         /\ r.mine = slots /\ r.next = next + 1 /\ (old.op = "delete" => r.gone = old.gone)
         /\ r \in Writing \cup Renumbering
    <2>1. slots \in Numbering /\ next + 1 \in Nat \ {0}
      BY <1>3, <1>9 DEF Numbering
    <2>2. CASE old \in Writing
      <3>1. r = [pc |-> "write", op |-> old.op, new |-> old.new, next |-> next + 1,
                 mine |-> slots, goal |-> goal]
        BY <2>2 DEF Writing
      <3> QED
        BY <2>1, <2>2, <3>1 DEF Writing
    <2>3. CASE old \in Renumbering
      BY <2>1, <2>3 DEF Renumbering
    <2> QED
      BY <1>2, <2>2, <2>3
  <1>11. \A j \in Image : slots[j] = IF goal[j] < next + 1 THEN goal[j] ELSE rows[j]
    <2>1. \A j \in Image \ {i} : goal[j] \in Nat /\ goal[j] # next
      BY <1>3, <1>4, <1>5 DEF Contiguous, Numbering, Rows
    <2> QED
      BY <1>3, <1>5, <1>6, <1>9, <2>1 DEF Numbering
  <1>12. PlanOK(r)
    BY <1>1, <1>2, <1>6, <1>10, <1>11, SMTT(20) DEF PlanOK
  <1>13. /\ Claimed(r) = Claimed(old) /\ Coming(r) = Coming(old)
         /\ Holding(r) <=> Holding(old)
         /\ Publishing(r) <=> Publishing(old)
         /\ Holding(old) <=> lock = w
         /\ old.op = "add" => born
         /\ ~Waits(old)
    BY <1>1, <1>10 DEF Claimed, Coming, Holding, Publishing, Waits, Idle, AskingToDelete,
                       IInv, LockOK, BirthOK
  <1> QED
    BY <1>1, <1>8, <1>10, <1>12, <1>13, ZenonT(40) DEF Moves, RequestState

LEMMA FaultsMove ==
  ASSUME IInv, NEW w \in Worker, DeleteFails(w) \/ Crash(w)
  PROVE  \E r : Moves(w, r)
  <1>1. Idle \in RequestState /\ PlanOK(Idle) /\ Claimed(Idle) = {} /\ Coming(Idle) = {}
        /\ ~Holding(Idle) /\ ~Publishing(Idle) /\ Waits(Idle) /\ Idle.pc = "idle"
    BY DEF RequestState, PlanOK, Claimed, Coming, Holding, Publishing, Waits, Idle
  <1>2. CASE /\ Become(w, Idle) /\ faults' = faults + 1
             /\ lock' = IF lock = w THEN Free ELSE lock
             /\ UNCHANGED <<born, rows, objects, used, lost, caught>>
    BY <1>1, <1>2 DEF Moves
  <1>3. CASE req[w].pc = "discard" /\ DeleteFails(w)
    <2> PICK new : new = Tail(req[w].new)
      OBVIOUS
    <2> PICK r : r = Cleanup(new)
      OBVIOUS
    <2>1. /\ Become(w, r) /\ faults' = faults + 1
          /\ UNCHANGED <<born, rows, objects, used, lock, lost, caught>>
      BY <1>3 DEF DeleteFails
    <2>2. new \in Uploads /\ Ids(new) \subseteq Ids(req[w].new)
      BY <1>3, TailOfUploads, Shapes DEF IInv, Discarding
    <2>3. /\ r \in RequestState /\ r.pc \in {"idle", "discard"}
          /\ Claimed(r) = Ids(new) /\ Coming(r) = {}
          /\ r.pc = "discard" => r.new = new
          /\ PlanOK(r) /\ ~Holding(r) /\ ~Publishing(r)
      BY <2>2, CleansUp
    <2>4. /\ Claimed(req[w]) = Ids(req[w].new)
          /\ Ids(req[w].new) \cap Rows(rows) = {} \/ lost
          /\ ~Waits(req[w]) /\ lock # w
      BY <1>3 DEF Claimed, IInv, ObjectsOK, LockOK, Holding, Waits, Idle, AskingToDelete
    <2> QED
      BY <2>1, <2>2, <2>3, <2>4 DEF Moves
  <1>4. CASE req[w].pc = "erase" /\ DeleteFails(w)
    <2>1. lock # w
      BY <1>4 DEF IInv, LockOK, Holding
    <2> QED
      BY <1>2, <1>4, <2>1 DEF DeleteFails
  <1>5. CASE Crash(w)
    BY <1>2, <1>5 DEF Crash
  <1> QED
    BY <1>3, <1>4, <1>5 DEF DeleteFails

-----------------------------------------------------------------------------
(* Storing and deleting objects. *)

LEMMA OneMoreUpload ==
  ASSUME NEW new \in Uploads, NEW i \in Image \ Ids(new), Len(new) < MaxImages
  PROVE  /\ Append(new, i) \in Uploads
         /\ Ids(Append(new, i)) = Ids(new) \cup {i}
         /\ Len(Append(new, i)) = Len(new) + 1
  <1> PICK more : more = Append(new, i)
    OBVIOUS
  <1>1. /\ new \in Seq(Image) /\ Len(new) \in Nat /\ DOMAIN new = 1..Len(new)
        /\ \A k, l \in 1..Len(new) : new[k] = new[l] => k = l
    BY UploadsOfLength DEF Uploads
  <1>2. /\ more \in Seq(Image) /\ Len(more) = Len(new) + 1
        /\ more[Len(new) + 1] = i
        /\ \A k \in 1..Len(new) : more[k] = new[k]
    BY <1>1, AppendProperties
  <1>3. DOMAIN more = 1..(Len(new) + 1)
    BY <1>2, LenProperties
  <1>4. Ids(more) = Ids(new) \cup {i}
    BY <1>1, <1>2, <1>3 DEF Ids
  <1>5. \A k \in 1..Len(new) : new[k] # i
    BY <1>1 DEF Ids
  <1>6. \A k, l \in 1..Len(more) : more[k] = more[l] => k = l
    BY <1>1, <1>2, <1>5
  <1>7. more \in Uploads
    <2>1. Len(more) <= MaxImages
      BY <1>1, <1>2, ImagesAssumption
    <2> QED
      BY <1>2, <1>6, <2>1 DEF Uploads
  <1> QED
    BY <1>2, <1>4, <1>7

LEMMA PutKeepsInv ==
  ASSUME IInv, NEW w \in Worker, Put(w)
  PROVE  IInv'
  <1> PICK old : old = req[w]
    OBVIOUS
  <1>1. PICK i \in Image \ used :
          /\ used' = used \cup {i} /\ objects' = objects \cup {i}
          /\ Become(w, LET new == Append(old.new, i) IN
                       IF Len(new) < old.want THEN [old EXCEPT !.new = new]
                       ELSE IF old.op = "publish" THEN Inserting(new)
                       ELSE [pc |-> "lock", op |-> "add", new |-> new])
    BY DEF Put
  <1> PICK new : new = Append(old.new, i)
    OBVIOUS
  <1>2. /\ old.pc = "put"
        /\ UNCHANGED <<born, rows, lock, faults, lost, caught>>
    BY <1>1 DEF Put
  <1>3. old \in Putting /\ old.new \in Uploads /\ Len(old.new) < old.want /\ Len(old.new) \in Nat
    BY <1>2, Shapes, UploadsOf, UploadsOfLength DEF IInv, StateOK
  <1>4. Claimed(old) = Ids(old.new) /\ Coming(old) = Ids(old.new) /\ Ids(old.new) \subseteq used
    BY <1>2 DEF Claimed, Coming, IInv, FreshOK
  <1>5. new \in Uploads /\ Ids(new) = Ids(old.new) \cup {i} /\ Len(new) = Len(old.new) + 1
    <2>1. old.want \in 1..MaxImages
      BY <1>3 DEF Putting
    <2>2. Len(old.new) < MaxImages
      BY <1>3, <2>1, ImagesAssumption
    <2> QED
      BY <1>3, <1>4, <2>2, OneMoreUpload
  <1>6. old.op = "publish" => ~born
    BY <1>2 DEF IInv, BirthOK, Publishing
  <1>7. PICK r : /\ Become(w, r)
                 /\ r \in RequestState /\ PlanOK(r) /\ r.new = new /\ r.op = old.op
                 /\ r.pc \in {"put", "write", "lock"}
                 /\ r.pc = "write" => r.op = "publish"
                 /\ r.pc = "lock" => r.op = "add"
                 /\ r.pc = "put" => Len(r.new) < r.want
    <2>1. CASE Len(new) < old.want
      <3> PICK r : r = [old EXCEPT !.new = new]
        OBVIOUS
      <3>1. r = [pc |-> "put", op |-> old.op, new |-> new, want |-> old.want]
        BY <1>3, <2>1 DEF Putting
      <3>2. r \in Putting
        BY <1>3, <1>5, <3>1 DEF Putting
      <3>3. Become(w, r)
        BY <1>1, <2>1
      <3>4. PlanOK(r)
        BY <3>1 DEF PlanOK
      <3> QED
        BY <2>1, <3>1, <3>2, <3>3, <3>4 DEF RequestState
    <2>2. CASE ~(Len(new) < old.want) /\ old.op = "publish"
      <3> PICK r : r = Inserting(new)
        OBVIOUS
      <3>1. r \in Writing /\ PlanOK(r) /\ r.pc = "write" /\ r.op = "publish" /\ r.new = new
        BY <1>5, <1>6, <2>2, InsertingIsPlanned
      <3>2. Become(w, r)
        BY <1>1, <2>2
      <3> QED
        BY <2>2, <3>1, <3>2 DEF RequestState
    <2>3. CASE ~(Len(new) < old.want) /\ old.op # "publish"
      <3> PICK r : r = [pc |-> "lock", op |-> "add", new |-> new]
        OBVIOUS
      <3>1. old.op = "add"
        BY <1>3, <2>3 DEF Putting
      <3>2. r \in Asking
        BY <1>5 DEF Asking
      <3>3. PlanOK(r)
        BY DEF PlanOK
      <3>4. Become(w, r)
        BY <1>1, <2>3
      <3> QED
        BY <3>1, <3>2, <3>3, <3>4 DEF RequestState
    <2> QED
      BY <2>1, <2>2, <2>3
  <1>8. /\ req' \in [Worker -> RequestState]
        /\ req'[w] = r
        /\ \A v \in Worker \ {w} : req'[v] = req[v]
    BY <1>2, <1>7, Becoming DEF IInv
  <1>9. Claimed(r) = Claimed(old) \cup {i} /\ Coming(r) = Coming(old) \cup {i}
    BY <1>4, <1>5, <1>7 DEF Claimed, Coming
  <1>10. StateOK'
    <2>1. Contiguous(rows)' /\ faults' \in Nat
      BY <1>2 DEF IInv, StateOK
    <2>2. (Rows(rows) \subseteq used /\ objects \subseteq used /\ used \subseteq Image)'
      BY <1>1, <1>2 DEF IInv, StateOK
    <2>3. (\A v \in Worker : req[v].pc = "put" => Len(req[v].new) < req[v].want)'
      BY <1>7, <1>8 DEF IInv, StateOK
    <2> QED
      BY <1>2, <1>8, <2>1, <2>2, <2>3 DEF IInv, StateOK
  <1>11. LockOK'
    <2>1. \A v \in Worker : Holding(req'[v]) <=> Holding(req[v])
      BY <1>2, <1>7, <1>8 DEF Holding
    <2> QED
      BY <1>2, <2>1 DEF IInv, LockOK
  <1>12. BirthOK'
    <2>1. \A v \in Worker : Publishing(req'[v]) => Publishing(req[v])
      BY <1>2, <1>7, <1>8 DEF Publishing
    <2>2. \A v \in Worker : Waits(req[v]) => Waits(req'[v])
      BY <1>2, <1>8 DEF Waits, Idle, AskingToDelete
    <2>3. \A v \in Worker :
            req'[v].pc \in {"put", "lock", "write"} /\ req'[v].op = "add" => born
      BY <1>2, <1>7, <1>8 DEF IInv, BirthOK
    <2>4. \A v \in Worker : Publishing(req'[v]) =>
            ~born /\ \A u \in Worker \ {v} : Waits(req'[u])
      BY <2>1, <2>2 DEF IInv, BirthOK
    <2> QED
      BY <1>2, <2>3, <2>4 DEF IInv, BirthOK
  <1>13. \A v \in Worker : PlanOK(req[v])'
    <2>1. \A v \in Worker : PlanOK(req'[v])
      BY <1>7, <1>8 DEF IInv
    <2> QED
      BY <1>2, <2>1 DEF PlanOK
  <1>14. FreshOK'
    <2>1. \A v \in Worker : Coming(req'[v]) \subseteq Coming(req[v]) \cup {i}
                            /\ Claimed(req'[v]) \subseteq Claimed(req[v]) \cup {i}
      BY <1>8, <1>9
    <2>2. \A v \in Worker : i \notin Claimed(req[v]) /\ i \notin Coming(req[v]) /\ i \notin Rows(rows)
      BY ClaimIsSmall DEF IInv, StateOK, FreshOK
    <2>3. \A v \in Worker : Coming(req'[v]) \cap Rows(rows) = {}
      BY <2>1, <2>2 DEF IInv, FreshOK
    <2>4. \A v \in Worker : Claimed(req'[v]) \subseteq used'
      BY <1>1, <2>1 DEF IInv, FreshOK
    <2>5. ASSUME NEW u \in Worker, NEW v \in Worker, u # v
          PROVE  Coming(req'[u]) \cap Claimed(req'[v]) = {}
      <3>1. Coming(req[u]) \cap Claimed(req[v]) = {}
        BY <2>5 DEF IInv, FreshOK
      <3> QED
        BY <1>8, <1>9, <2>2, <2>5, <3>1
    <2>6. \A v \in Worker : req'[v].pc = "erase" => req'[v].gone \notin Rows(rows)
      BY <1>7, <1>8 DEF IInv, FreshOK
    <2> QED
      BY <1>2, <2>3, <2>4, <2>5, <2>6 DEF FreshOK
  <1>15. ObjectsOK'
    <2>1. ASSUME ~lost
          PROVE  /\ Rows(rows) \subseteq objects'
                 /\ \A v \in Worker : Coming(req'[v]) \subseteq objects'
                 /\ \A v \in Worker : req'[v].pc = "discard" => Ids(req'[v].new) \cap Rows(rows) = {}
      BY <1>1, <1>7, <1>8, <1>9, <2>1 DEF IInv, ObjectsOK
    <2> QED
      BY <1>2, <2>1 DEF ObjectsOK
  <1>16. OrphansOK'
    <2>1. \A v \in Worker : Claimed(req[v]) \subseteq Claimed(req'[v])
      BY <1>8, <1>9
    <2>2. i \in Claimed(req'[w])
      BY <1>8, <1>9
    <2>3. \A x \in Orphans' : x \in Orphans
      BY <1>1, <1>2, <2>1, <2>2 DEF Orphans
    <2> QED
      BY <1>2, <2>3, OrphansStay DEF IInv
  <1> QED
    BY <1>10, <1>11, <1>12, <1>13, <1>14, <1>15, <1>16 DEF IInv

(* An object is deleted that belongs to the request alone. *)
LEMMA DeletingKeepsInv ==
  ASSUME IInv, NEW w \in Worker, NEW x, NEW r \in RequestState,
         req[w].pc \in {"discard", "erase"}, Become(w, r),
         r.pc \in {"idle", "discard"},
         Claimed(req[w]) = Claimed(r) \cup {x},
         Coming(r) = {}, r.pc = "discard" => Claimed(r) = Ids(r.new),
         x \notin Rows(rows) \/ lost,
         r.pc = "discard" => Ids(r.new) \cap Rows(rows) = {} \/ lost,
         objects' = objects \ {x},
         UNCHANGED <<born, rows, used, lock, faults, lost, caught>>
  PROVE  IInv'
  <1>1. /\ req' \in [Worker -> RequestState]
        /\ req'[w] = r
        /\ \A v \in Worker \ {w} : req'[v] = req[v]
    BY Becoming DEF IInv
  <1>2. StateOK'
    <2>1. Contiguous(rows)' /\ faults' \in Nat
      BY DEF IInv, StateOK
    <2>2. (Rows(rows) \subseteq used /\ objects \subseteq used /\ used \subseteq Image)'
      BY DEF IInv, StateOK
    <2>3. (\A v \in Worker : req[v].pc = "put" => Len(req[v].new) < req[v].want)'
      BY <1>1 DEF IInv, StateOK
    <2> QED
      BY <1>1, <2>1, <2>2, <2>3 DEF IInv, StateOK
  <1>3. LockOK'
    <2>1. \A v \in Worker : Holding(req'[v]) <=> Holding(req[v])
      BY <1>1 DEF Holding
    <2> QED
      BY <2>1 DEF IInv, LockOK
  <1>4. BirthOK'
    <2>1. \A v \in Worker : Publishing(req'[v]) => Publishing(req[v])
      BY <1>1 DEF Publishing
    <2>2. \A v \in Worker : Waits(req[v]) => Waits(req'[v])
      BY <1>1 DEF Waits, Idle, AskingToDelete
    <2>3. \A v \in Worker :
            req'[v].pc \in {"put", "lock", "write"} /\ req'[v].op = "add" => born
      BY <1>1 DEF IInv, BirthOK
    <2>4. \A v \in Worker : Publishing(req'[v]) =>
            ~born /\ \A u \in Worker \ {v} : Waits(req'[u])
      BY <2>1, <2>2 DEF IInv, BirthOK
    <2> QED
      BY <2>3, <2>4 DEF IInv, BirthOK
  <1>5. \A v \in Worker : PlanOK(req[v])'
    <2>1. \A v \in Worker : PlanOK(req'[v])
      BY <1>1 DEF IInv, PlanOK
    <2> QED
      BY <2>1 DEF PlanOK
  <1>6. FreshOK'
    <2>1. \A v \in Worker : Coming(req'[v]) \subseteq Coming(req[v])
                            /\ Claimed(req'[v]) \subseteq Claimed(req[v])
      BY <1>1
    <2>2. \A v \in Worker : Coming(req'[v]) \cap Rows(rows) = {} /\ Claimed(req'[v]) \subseteq used
      BY <2>1 DEF IInv, FreshOK
    <2>3. \A u, v \in Worker : u # v => Coming(req'[u]) \cap Claimed(req'[v]) = {}
      BY <2>1 DEF IInv, FreshOK
    <2>4. \A v \in Worker : req'[v].pc = "erase" => req'[v].gone \notin Rows(rows)
      BY <1>1 DEF IInv, FreshOK
    <2> QED
      BY <2>2, <2>3, <2>4 DEF FreshOK
  <1>7. ObjectsOK'
    <2>1. \A v \in Worker \ {w} : x \notin Coming(req[v])
      BY DEF IInv, FreshOK
    <2>2. ASSUME ~lost
          PROVE  /\ Rows(rows) \subseteq objects'
                 /\ \A v \in Worker : Coming(req'[v]) \subseteq objects'
                 /\ \A v \in Worker : req'[v].pc = "discard" => Ids(req'[v].new) \cap Rows(rows) = {}
      BY <1>1, <2>1, <2>2 DEF IInv, ObjectsOK
    <2> QED
      BY <2>2 DEF ObjectsOK
  <1>8. OrphansOK'
    <2>1. \A v \in Worker : Claimed(req[v]) \subseteq Claimed(req'[v]) \cup {x}
      BY <1>1
    <2>2. \A i \in Orphans' : i \in Orphans
      BY <2>1 DEF Orphans
    <2> QED
      BY <2>2, OrphansStay DEF IInv
  <1> QED
    BY <1>2, <1>3, <1>4, <1>5, <1>6, <1>7, <1>8 DEF IInv

LEMMA DiscardKeepsInv ==
  ASSUME IInv, NEW w \in Worker, Discard(w) \/ Erase(w)
  PROVE  IInv'
  <1>1. CASE Discard(w)
    <2> PICK new : new = req[w].new
      OBVIOUS
    <2> PICK r : r = Cleanup(Tail(new))
      OBVIOUS
    <2>1. /\ req[w].pc = "discard" /\ Become(w, r) /\ objects' = objects \ {Head(new)}
          /\ UNCHANGED <<born, rows, used, lock, faults, lost, caught>>
      BY <1>1 DEF Discard
    <2>2. new \in Uploads \ {<< >>}
      BY <2>1, Shapes DEF IInv, Discarding
    <2>3. Tail(new) \in Uploads /\ Ids(new) = Ids(Tail(new)) \cup {Head(new)}
      BY <2>2, TailOfUploads
    <2>4. /\ r \in RequestState /\ r.pc \in {"idle", "discard"}
          /\ Claimed(r) = Ids(Tail(new)) /\ Coming(r) = {}
          /\ r.pc = "discard" => r.new = Tail(new)
      BY <2>3, CleansUp
    <2>5. Claimed(req[w]) = Ids(new)
      BY <2>1 DEF Claimed
    <2>6. Ids(new) \cap Rows(rows) = {} \/ lost
      BY <2>1 DEF IInv, ObjectsOK
    <2>7. Claimed(req[w]) = Claimed(r) \cup {Head(new)}
      BY <2>3, <2>4, <2>5
    <2>8. r.pc = "discard" => Claimed(r) = Ids(r.new)
      BY <2>4
    <2>9. Head(new) \notin Rows(rows) \/ lost
      BY <2>3, <2>6
    <2>10. r.pc = "discard" => Ids(r.new) \cap Rows(rows) = {} \/ lost
      BY <2>3, <2>4, <2>6
    <2> QED
      BY <2>1, <2>4, <2>7, <2>8, <2>9, <2>10, DeletingKeepsInv
  <1>2. CASE Erase(w)
    <2> PICK gone : gone = req[w].gone
      OBVIOUS
    <2>1. /\ req[w].pc = "erase" /\ Become(w, Idle) /\ objects' = objects \ {gone}
          /\ UNCHANGED <<born, rows, used, lock, faults, lost, caught>>
      BY <1>2 DEF Erase
    <2>2. Idle \in RequestState /\ Idle.pc = "idle" /\ Claimed(Idle) = {} /\ Coming(Idle) = {}
      BY DEF RequestState, Idle, Claimed, Coming
    <2>3. Claimed(req[w]) = Claimed(Idle) \cup {gone}
      BY <2>1, <2>2 DEF Claimed
    <2>4. gone \notin Rows(rows)
      BY <2>1 DEF IInv, FreshOK
    <2> QED
      BY <2>1, <2>2, <2>3, <2>4, DeletingKeepsInv
  <1> QED
    BY <1>1, <1>2

-----------------------------------------------------------------------------
(* Commits. *)

(* When the last row is written, the rows are the new order. *)
LEMMA WrittenRows ==
  ASSUME IInv, NEW w \in Worker, req[w].pc = "write",
         req[w].next > Cardinality(Rows(req[w].goal))
  PROVE  req[w].mine = req[w].goal /\ Contiguous(req[w].goal)
  <1> PICK goal, mine, next : goal = req[w].goal /\ mine = req[w].mine /\ next = req[w].next
    OBVIOUS
  <1>1. req[w] \in Writing \cup Renumbering /\ PlanOK(req[w])
    BY Shapes DEF IInv
  <1>2. next \in Nat \ {0} /\ mine \in Numbering /\ goal \in Numbering
    BY <1>1 DEF Writing, Renumbering
  <1>3. /\ Contiguous(goal)
        /\ \A i \in Image : mine[i] = IF goal[i] < next THEN goal[i] ELSE rows[i]
    BY <1>1 DEF PlanOK
  <1>4. Cardinality(Rows(goal)) \in Nat /\ next > Cardinality(Rows(goal))
    BY RowsAreFinite
  <1>5. ASSUME NEW i \in Image PROVE goal[i] < next
    <2>1. goal[i] \in Nat /\ (goal[i] # 0 => goal[i] <= Cardinality(Rows(goal)))
      BY <1>2, <1>3 DEF Contiguous, Numbering, Rows
    <2> QED
      BY <1>2, <1>4, <2>1
  <1>6. mine = goal
    BY <1>2, <1>3, <1>5 DEF Numbering
  <1> QED
    BY <1>3, <1>6

(* Nobody else is changing rows, or publishing, while a worker writes. *)
LEMMA WritesAlone ==
  ASSUME IInv, NEW w \in Worker, req[w].pc = "write", NEW v \in Worker \ {w}
  PROVE  req[v].pc \notin {"remove", "write"} /\ ~Publishing(req[v])
  <1>1. req[w] \in Writing \cup Renumbering
    BY Shapes DEF IInv
  <1>2. ~Waits(req[w])
    BY DEF Waits, Idle, AskingToDelete
  <1>3. ~Publishing(req[v])
    BY <1>2 DEF IInv, BirthOK
  <1>4. CASE Publishing(req[w])
    <2>1. Waits(req[v])
      BY <1>4 DEF IInv, BirthOK
    <2> QED
      BY <1>3, <2>1 DEF Waits, Idle, AskingToDelete
  <1>5. CASE ~Publishing(req[w])
    <2>1. Holding(req[w])
      BY <1>5 DEF Holding, Publishing
    <2>2. ~Holding(req[v])
      BY <2>1 DEF IInv, LockOK
    <2>3. req[v].pc = "remove" => req[v].op = "delete"
      BY Shapes DEF IInv, Deleting
    <2> QED
      BY <1>3, <2>2, <2>3 DEF Holding, Publishing
  <1> QED
    BY <1>4, <1>5

(* Whether its client hears of it or not. *)
Commits(w, r) ==
  /\ req[w].pc = "write" /\ req[w].next > Cardinality(Rows(req[w].goal))
  /\ rows' = req[w].mine /\ born' = TRUE /\ lock' = Free
  /\ r \in RequestState /\ Become(w, r)
  /\ r.pc \in {"idle", "discard", "erase"}
  /\ Claimed(r) \subseteq Ids(req[w].new) \cup (IF req[w].op = "delete" THEN {req[w].gone} ELSE {})
  /\ r.pc = "erase" => req[w].op = "delete" /\ r.gone = req[w].gone
  /\ \/ lost' = lost /\ r.pc # "discard"
     \/ lost' = TRUE
  /\ \/ faults' = faults /\ (req[w].op = "delete" => Claimed(r) = {req[w].gone})
     \/ faults' = faults + 1
  /\ UNCHANGED <<objects, used, caught>>

LEMMA CommittingKeepsInv ==
  ASSUME IInv, NEW w \in Worker, NEW r, Commits(w, r)
  PROVE  IInv'
  <1> PICK old : old = req[w]
    OBVIOUS
  <1> PICK goal, new : goal = old.goal /\ new = old.new
    OBVIOUS
  <1> PICK freed : freed = IF old.op = "delete" THEN {old.gone} ELSE {}
    OBVIOUS
  <1>1. /\ old.pc = "write" /\ born' = TRUE /\ lock' = Free
        /\ r \in RequestState /\ Become(w, r) /\ r.pc \in {"idle", "discard", "erase"}
        /\ Claimed(r) \subseteq Ids(new) \cup freed
        /\ r.pc = "erase" => old.op = "delete" /\ r.gone = old.gone
        /\ UNCHANGED <<objects, used, caught>>
    BY DEF Commits
  <1>2. rows' = goal /\ Contiguous(goal)
    BY WrittenRows DEF Commits
  <1>3. /\ req' \in [Worker -> RequestState]
        /\ req'[w] = r
        /\ \A v \in Worker \ {w} : req'[v] = req[v]
    BY <1>1, Becoming DEF IInv
  <1>4. \A v \in Worker \ {w} : req[v].pc \notin {"remove", "write"} /\ ~Publishing(req[v])
    BY <1>1, WritesAlone
  <1>5. old \in Writing \cup Renumbering /\ PlanOK(old) /\ new \in Uploads
    BY <1>1, Shapes, UploadsOf DEF IInv
  <1>6. /\ Rows(goal) = (Rows(rows) \cup Ids(new)) \ freed
        /\ freed \subseteq Rows(rows)
        /\ freed # {} => Ids(new) = {}
    <2>1. CASE old \in Writing
      <3>1. freed = {} /\ Rows(goal) = Rows(rows) \cup Ids(new)
        BY <1>5, <2>1 DEF Writing, PlanOK
      <3> QED
        BY <3>1
    <2>2. CASE old \in Renumbering
      <3>1. /\ freed = {old.gone} /\ old.gone \in Rows(rows) /\ new = << >>
            /\ Rows(goal) = Rows(rows) \ {old.gone}
        BY <1>5, <2>2 DEF Renumbering, PlanOK
      <3> QED
        BY <3>1, NoUploads
    <2> QED
      BY <1>5, <2>1, <2>2
  <1>7. /\ Claimed(old) = Ids(new) /\ Coming(old) = Ids(new)
        /\ Ids(new) \cap Rows(rows) = {} /\ Ids(new) \subseteq used
    <2>1. Claimed(old) = Ids(new) /\ Coming(old) = Ids(new)
      BY <1>1 DEF Claimed, Coming
    <2> QED
      BY <2>1 DEF IInv, FreshOK
  <1>8. Rows(rows)' = Rows(goal)
    BY <1>2 DEF Rows
  <1>9. Coming(r) = {} /\ ~Holding(r) /\ ~Publishing(r) /\ PlanOK(r)
    BY <1>1 DEF Coming, Holding, Publishing, PlanOK
  <1>10. StateOK'
    <2>1. Contiguous(rows)'
      BY <1>2 DEF Contiguous, Rows
    <2>2. (Rows(rows) \subseteq used /\ objects \subseteq used /\ used \subseteq Image)'
      BY <1>1, <1>6, <1>7, <1>8 DEF IInv, StateOK
    <2>3. (\A v \in Worker : req[v].pc = "put" => Len(req[v].new) < req[v].want)'
      BY <1>1, <1>3 DEF IInv, StateOK
    <2>4. faults' \in Nat /\ lost' \in BOOLEAN
      <3>1. faults' = faults \/ faults' = faults + 1
        BY DEF Commits
      <3>2. faults' \in Nat
        BY <3>1 DEF IInv, StateOK
      <3>3. lost' = lost \/ lost' = TRUE
        BY DEF Commits
      <3>4. lost' \in BOOLEAN
        BY <3>3, Zenon DEF IInv, StateOK
      <3> QED
        BY <3>2, <3>4
    <2> QED
      BY <1>1, <1>3, <2>1, <2>2, <2>3, <2>4 DEF IInv, StateOK
  <1>11. LockOK'
    <2>1. \A v \in Worker : ~Holding(req'[v])
      BY <1>3, <1>4, <1>9 DEF Holding
    <2>2. Free \notin Worker
      BY WorkerAssumption DEF Free
    <2> QED
      BY <1>1, <2>1, <2>2 DEF LockOK
  <1>12. BirthOK'
    <2>1. \A v \in Worker : ~Publishing(req'[v])
      BY <1>3, <1>4, <1>9
    <2> QED
      BY <1>1, <2>1 DEF BirthOK
  <1>13. \A v \in Worker : PlanOK(req[v])'
    <2>1. \A v \in Worker : req'[v].pc \notin {"remove", "write"}
      BY <1>1, <1>3, <1>4
    <2> QED
      BY <2>1 DEF PlanOK
  <1>14. FreshOK'
    <2>1. ASSUME NEW v \in Worker PROVE Coming(req'[v]) \cap Rows(goal) = {}
      <3>1. CASE v = w
        BY <1>3, <1>9, <3>1
      <3>2. CASE v # w
        <4>1. Coming(req[v]) \cap Ids(new) = {} /\ Coming(req[v]) \cap Rows(rows) = {}
          BY <1>7, <3>2 DEF IInv, FreshOK
        <4> QED
          BY <1>3, <1>6, <3>2, <4>1
      <3> QED
        BY <3>1, <3>2
    <2>2. \A v \in Worker : Claimed(req'[v]) \subseteq used
      <3>1. Claimed(r) \subseteq used
        BY <1>1, <1>6, <1>7 DEF IInv, StateOK
      <3> QED
        BY <1>3, <3>1 DEF IInv, FreshOK
    <2>3. ASSUME NEW u \in Worker, NEW v \in Worker, u # v
          PROVE  Coming(req'[u]) \cap Claimed(req'[v]) = {}
      <3>1. CASE u = w
        BY <1>3, <1>9, <3>1
      <3>2. CASE u # w /\ v = w
        <4>1. Coming(req[u]) \cap Ids(new) = {} /\ Coming(req[u]) \cap Rows(rows) = {}
          BY <1>7, <3>2 DEF IInv, FreshOK
        <4> QED
          BY <1>1, <1>3, <1>6, <3>2, <4>1
      <3>3. CASE u # w /\ v # w
        BY <1>3, <2>3, <3>3 DEF IInv, FreshOK
      <3> QED
        BY <3>1, <3>2, <3>3
    <2>4. ASSUME NEW v \in Worker, req'[v].pc = "erase" PROVE req'[v].gone \notin Rows(goal)
      <3>1. CASE v = w
        <4>1. old.op = "delete" /\ r.gone = old.gone
          BY <1>1, <1>3, <2>4, <3>1
        <4> QED
          BY <1>3, <1>6, <3>1, <4>1
      <3>2. CASE v # w
        <4>1. req[v].gone \notin Rows(rows) /\ Claimed(req[v]) = {req[v].gone}
          BY <1>3, <2>4, <3>2 DEF IInv, FreshOK, Claimed
        <4>2. Ids(new) \cap Claimed(req[v]) = {}
          BY <1>7, <3>2 DEF IInv, FreshOK
        <4> QED
          BY <1>3, <1>6, <3>2, <4>1, <4>2
      <3> QED
        BY <3>1, <3>2
    <2> QED
      BY <1>1, <1>8, <2>1, <2>2, <2>3, <2>4 DEF FreshOK
  <1>15. ObjectsOK'
    <2>1. ASSUME ~lost'
          PROVE  /\ Rows(goal) \subseteq objects
                 /\ \A v \in Worker : Coming(req'[v]) \subseteq objects
                 /\ \A v \in Worker : req'[v].pc = "discard" => Ids(req'[v].new) \cap Rows(goal) = {}
      <3>1. ~lost /\ r.pc # "discard"
        BY <2>1 DEF Commits
      <3>2. Ids(new) \subseteq objects /\ Rows(rows) \subseteq objects
        BY <1>7, <3>1 DEF IInv, ObjectsOK
      <3>3. \A v \in Worker : Coming(req'[v]) \subseteq objects
        BY <1>3, <1>9, <3>1 DEF IInv, ObjectsOK
      <3>4. ASSUME NEW v \in Worker, req'[v].pc = "discard"
            PROVE  Ids(req'[v].new) \cap Rows(goal) = {}
        <4>1. v # w /\ req'[v] = req[v] /\ Claimed(req[v]) = Ids(req[v].new)
          BY <1>3, <3>1, <3>4 DEF Claimed
        <4>2. Ids(req[v].new) \cap Rows(rows) = {} /\ Ids(new) \cap Ids(req[v].new) = {}
          BY <1>7, <3>1, <3>4, <4>1 DEF IInv, ObjectsOK, FreshOK
        <4> QED
          BY <1>6, <4>1, <4>2
      <3> QED
        BY <1>6, <3>2, <3>3, <3>4
    <2> QED
      BY <1>1, <1>8, <2>1 DEF ObjectsOK
  <1>16. OrphansOK'
    <2>1. ASSUME NEW i \in Orphans' PROVE i \in Orphans \cup freed
      <3>1. i \in objects /\ i \notin Rows(goal) /\ \A v \in Worker : i \notin Claimed(req'[v])
        BY <1>1, <1>8, <2>1 DEF Orphans
      <3>2. CASE i \in freed
        BY <3>2
      <3>3. CASE i \notin freed
        <4>1. i \notin Rows(rows) /\ i \notin Claimed(req[w])
          BY <1>6, <1>7, <3>1, <3>3
        <4>2. \A v \in Worker : i \notin Claimed(req[v])
          BY <1>3, <3>1, <4>1
        <4> QED
          BY <3>1, <4>1, <4>2 DEF Orphans
      <3> QED
        BY <3>2, <3>3
    <2>2. CASE faults' = faults /\ (old.op = "delete" => Claimed(r) = {old.gone})
      <3>1. freed \subseteq Claimed(r)
        BY <2>2
      <3>2. \A i \in Orphans' : i \in Orphans
        BY <1>3, <2>1, <3>1 DEF Orphans
      <3> QED
        BY <2>2, <3>2, OrphansStay DEF IInv
    <2>3. CASE faults' = faults + 1
      <3>1. IsFiniteSet(freed) /\ Cardinality(freed) <= MaxImages
        <4>1. CASE freed = {}
          BY <4>1, FS_EmptySet, ImagesAssumption
        <4>2. CASE freed = {old.gone}
          <5>1. IsFiniteSet({old.gone}) /\ Cardinality({old.gone}) = 1
            BY FS_Singleton
          <5>2. 1 <= MaxImages
            BY ImagesAssumption
          <5> QED
            BY <4>2, <5>1, <5>2
        <4> QED
          BY <4>1, <4>2
      <3> QED
        BY <2>1, <2>3, <3>1, OrphansOfOneFault DEF IInv
    <2> QED
      BY <2>2, <2>3 DEF Commits
  <1> QED
    BY <1>10, <1>11, <1>12, <1>13, <1>14, <1>15, <1>16 DEF IInv

LEMMA CommitKeepsInv ==
  ASSUME IInv, NEW w \in Worker, Commit(w) \/ CommitLost(w)
  PROVE  IInv'
  <1> PICK old : old = req[w]
    OBVIOUS
  <1>1. /\ old.pc = "write" /\ old.next > Cardinality(Rows(old.goal))
        /\ rows' = old.mine /\ born' = TRUE /\ lock' = Free
        /\ UNCHANGED <<objects, used, caught>>
    BY DEF Commit, CommitLost
  <1>2. old \in Writing \cup Renumbering /\ old.new \in Uploads
    BY <1>1, Shapes, UploadsOf DEF IInv
  <1>3. CASE Commit(w) /\ old.op = "delete"
    <2> PICK r : r = [pc |-> "erase", gone |-> old.gone]
      OBVIOUS
    <2>1. r \in Erasing /\ Claimed(r) = {old.gone}
      BY <1>2, <1>3 DEF Writing, Renumbering, Erasing, Claimed
    <2>2. Become(w, r) /\ faults' = faults /\ lost' = lost
      BY <1>3 DEF Commit, AfterCommit
    <2>3. Commits(w, r)
      BY <1>1, <1>3, <2>1, <2>2 DEF Commits, RequestState
    <2> QED
      BY <2>3, CommittingKeepsInv
  <1>4. CASE Commit(w) /\ old.op # "delete"
    <2>1. Idle \in RequestState /\ Claimed(Idle) = {} /\ Idle.pc = "idle"
      BY DEF RequestState, Idle, Claimed
    <2>2. Become(w, Idle) /\ faults' = faults /\ lost' = lost
      BY <1>4 DEF Commit, AfterCommit
    <2>3. Commits(w, Idle)
      BY <1>1, <1>4, <2>1, <2>2 DEF Commits
    <2> QED
      BY <2>3, CommittingKeepsInv
  <1>5. CASE CommitLost(w)
    <2> PICK r : r = Cleanup(old.new)
      OBVIOUS
    <2>1. r \in RequestState /\ r.pc \in {"idle", "discard"} /\ Claimed(r) = Ids(old.new)
      BY <1>2, CleansUp
    <2>2. Become(w, r) /\ faults' = faults + 1 /\ lost' = TRUE
      BY <1>5 DEF CommitLost
    <2>3. Commits(w, r)
      BY <1>1, <2>1, <2>2 DEF Commits
    <2> QED
      BY <2>3, CommittingKeepsInv
  <1> QED
    BY <1>3, <1>4, <1>5

-----------------------------------------------------------------------------
(* The invariant and what follows from it. *)

LEMMA StartsWell == Init => IInv
  <1> SUFFICES ASSUME Init PROVE IInv
    OBVIOUS
  <1>1. \A w \in Worker : req[w] = Idle
    BY DEF Init
  <1>2. rows = NoRows /\ Contiguous(rows) /\ Rows(rows) = {}
    BY NoRowsContiguous DEF Init
  <1>3. StateOK
    BY <1>1, <1>2 DEF Init, StateOK, RequestState, Idle
  <1>4. LockOK
    BY <1>1, WorkerAssumption DEF Init, LockOK, Holding, Idle, Free
  <1>5. BirthOK
    BY <1>1, <1>2 DEF Init, BirthOK, Publishing, Idle
  <1>6. \A w \in Worker : PlanOK(req[w])
    BY <1>1 DEF PlanOK, Idle
  <1>7. FreshOK /\ ObjectsOK
    BY <1>1, <1>2 DEF FreshOK, ObjectsOK, Coming, Claimed, Idle
  <1>8. OrphansOK
    <2>1. Orphans = {}
      BY DEF Init, Orphans
    <2> QED
      BY <2>1, FS_EmptySet, ImagesAssumption DEF Init, OrphansOK
  <1> QED
    BY <1>3, <1>4, <1>5, <1>6, <1>7, <1>8 DEF IInv

LEMMA NothingChanges ==
  ASSUME IInv, UNCHANGED vars
  PROVE  IInv'
  <1>1. StateOK' /\ LockOK' /\ BirthOK'
    BY DEF vars, IInv, StateOK, Contiguous, Rows, LockOK, BirthOK
  <1>2. (\A w \in Worker : PlanOK(req[w]))'
    BY DEF vars, IInv, PlanOK
  <1>3. FreshOK' /\ ObjectsOK'
    BY DEF vars, IInv, FreshOK, ObjectsOK
  <1>4. OrphansOK'
    BY DEF vars, IInv, OrphansOK, Orphans
  <1> QED
    BY <1>1, <1>2, <1>3, <1>4 DEF IInv

LEMMA Invariance == Spec => []IInv
  <1>1. ASSUME IInv, [Next]_vars PROVE IInv'
    <2>1. ASSUME NEW w \in Worker, NEW n \in 0..MaxImages, BeginPublish(w, n)
          PROVE  IInv'
      BY <1>1, <2>1, BeginPublishMoves, MovingKeepsInv
    <2>2. ASSUME NEW w \in Worker, NEW n \in 1..MaxImages, BeginAdd(w, n)
          PROVE  IInv'
      BY <1>1, <2>2, BeginAddMoves, MovingKeepsInv
    <2>3. ASSUME NEW w \in Worker, NEW i \in Image, BeginDelete(w, i)
          PROVE  IInv'
      BY <1>1, <2>3, BeginDeleteMoves, MovingKeepsInv
    <2>4. ASSUME NEW w \in Worker, Put(w)
          PROVE  IInv'
      BY <1>1, <2>4, PutKeepsInv
    <2>5. ASSUME NEW w \in Worker, PutFails(w) \/ Refuse(w) \/ Abort(w)
          PROVE  IInv'
      BY <1>1, <2>5, FailuresMove, MovingKeepsInv
    <2>6. ASSUME NEW w \in Worker, LockProduct(w)
          PROVE  IInv'
      BY <1>1, <2>6, LockProductMoves, MovingKeepsInv
    <2>7. ASSUME NEW w \in Worker, DeleteRow(w)
          PROVE  IInv'
      BY <1>1, <2>7, DeleteRowMoves, MovingKeepsInv
    <2>8. ASSUME NEW w \in Worker, WriteRow(w)
          PROVE  IInv'
      BY <1>1, <2>8, WriteRowMoves, MovingKeepsInv
    <2>9. ASSUME NEW w \in Worker, Commit(w) \/ CommitLost(w)
          PROVE  IInv'
      BY <1>1, <2>9, CommitKeepsInv
    <2>10. ASSUME NEW w \in Worker, Discard(w) \/ Erase(w)
           PROVE  IInv'
      BY <1>1, <2>10, DiscardKeepsInv
    <2>11. ASSUME NEW w \in Worker, DeleteFails(w) \/ Crash(w)
           PROVE  IInv'
      BY <1>1, <2>11, FaultsMove, MovingKeepsInv
    <2>12. CASE UNCHANGED vars
      BY <1>1, <2>12, NothingChanges
    <2> QED
      BY <1>1, <2>1, <2>2, <2>3, <2>4, <2>5, <2>6, <2>7, <2>8, <2>9, <2>10, <2>11, <2>12
         DEF Next
  <1> QED
    BY <1>1, StartsWell, PTL DEF Spec

(* Whatever additions and deletions overlap, fail or die, the committed    *)
(* images of a product fill slots 1..N, each of them once.                 *)
THEOREM NumberingHolds == Spec => []SlotsContiguous
  <1>1. IInv => SlotsContiguous
    BY DEF IInv, StateOK, Contiguous, SlotsContiguous
  <1> QED
    BY <1>1, Invariance, PTL

(* No INSERT or UPDATE of a change ever meets the unique index on slots:   *)
(* the order the statements come in is right for every number of images.   *)
THEOREM IndexIsQuiet == Spec => []IndexNeverRefuses
  <1>1. IInv => IndexNeverRefuses
    BY DEF IInv, StateOK, IndexNeverRefuses
  <1> QED
    BY <1>1, Invariance, PTL

(* An image that buyers see has its object, through every crash and every  *)
(* failure, as long as no commit succeeds that reports an error.           *)
THEOREM SeenImagesExist == Spec => []MissingObjectsNeedLostCommit
  <1>1. IInv => MissingObjectsNeedLostCommit
    BY DEF IInv, ObjectsOK, MissingObjectsNeedLostCommit
  <1> QED
    BY <1>1, Invariance, PTL

(* Objects that nobody refers to any more are the trace of faults: at rest *)
(* there are at most MaxImages of them for each fault that has happened.   *)
THEOREM OrphansAreBounded == Spec => []OrphansNeedFaults
  <1>1. ASSUME IInv, \A w \in Worker : req[w] = Idle
        PROVE  Cardinality(objects \ Rows(rows)) <= MaxImages * faults
    <2>1. Orphans = objects \ Rows(rows)
      BY <1>1 DEF Orphans, Claimed, Idle
    <2> QED
      BY <1>1, <2>1 DEF IInv, OrphansOK
  <1>2. IInv => OrphansNeedFaults
    BY <1>1 DEF OrphansNeedFaults
  <1> QED
    BY <1>2, Invariance, PTL
=============================================================================
