------------------------------ MODULE ProductImages ------------------------------
(***************************************************************************)
(* The images of one product: rows in product_images and objects in the    *)
(* object store, which share no transaction.  Publishing the product with  *)
(* images and adding more store the objects first and the rows afterwards; *)
(* deleting one removes the row first and the object afterwards.  Rows are *)
(* changed in a transaction under the Product lock, one statement at a     *)
(* time.  Storing, committing and deleting may fail, and a request may die *)
(* at any step.                                                            *)
(***************************************************************************)
EXTENDS Integers, FiniteSets, Sequences

CONSTANTS
  Image,          \* image identifiers; an image's object has its name
  MaxImages,      \* images a product may have
  Worker,         \* requests served at the same time
  MaxFaults       \* bound on crashes, failed deletions and lost commits

ASSUME ImagesAssumption ==
  /\ MaxImages \in Nat \ {0} /\ IsFiniteSet(Image) /\ MaxFaults \in Nat
(* No worker has the name of the free lock. *)
ASSUME WorkerAssumption == "free" \notin Worker

VARIABLES
  born,      \* whether the product's row is committed
  rows,      \* product_images: sort_order of each image, 0 without a row
  objects,   \* objects in the store
  used,      \* image identifiers handed out
  lock,      \* holder of the Product row lock
  req,       \* what each worker is doing
  faults,    \* crashes, failed deletions and lost commits so far
  lost,      \* history: whether a commit succeeded and reported an error
  caught     \* whether the slot index ever refused a statement

vars == <<born, rows, objects, used, lock, req, faults, lost, caught>>

Idle == [pc |-> "idle"]
Free == "free"
NoRows == [i \in Image |-> 0]
Rows(r) == {i \in Image : r[i] # 0}
Ids(s) == {s[k] : k \in DOMAIN s}

Init ==
  /\ born = FALSE
  /\ rows = NoRows
  /\ objects = {}
  /\ used = {}
  /\ lock = Free
  /\ req = [w \in Worker |-> Idle]
  /\ faults = 0
  /\ lost = FALSE
  /\ caught = FALSE

Become(w, r) == req' = [req EXCEPT ![w] = r]

(* What a worker does when its request failed: objects it has stored are   *)
(* discarded.                                                              *)
Cleanup(new) == IF new = << >> THEN Idle ELSE [pc |-> "discard", new |-> new]

-----------------------------------------------------------------------------
(* Product.AppendImages and Product.RemoveImage. *)

Appended(r, new) ==
  [i \in Image |-> IF i \in Ids(new)
                   THEN Cardinality(Rows(r)) + CHOOSE k \in DOMAIN new : new[k] = i
                   ELSE r[i]]

(* Mutant: the remaining images keep their numbers. *)
RemovedLeavingGap(r, gone) == [r EXCEPT ![gone] = 0]

Removed(r, gone) ==
  [i \in Image |-> IF r[i] = 0 \/ i = gone THEN 0
                   ELSE Cardinality({j \in Rows(r) \ {gone} : r[j] <= r[i]})]

-----------------------------------------------------------------------------
(* Create and AddImages: put the objects, then write the rows. *)

(* The rows of a product that is being published, and of its images, are   *)
(* inserted in one transaction; nobody else knows the product yet.         *)
Inserting(new) ==
  [pc |-> "write", op |-> "publish", new |-> new, next |-> 1,
   mine |-> NoRows, goal |-> Appended(NoRows, new)]

(* A client whose publication failed may publish again. *)
BeginPublish(w, n) ==
  /\ ~born
  /\ \A v \in Worker : req[v] = Idle
  /\ Become(w, IF n = 0 THEN Inserting(<< >>)
               ELSE [pc |-> "put", op |-> "publish", new |-> << >>, want |-> n])
  /\ UNCHANGED <<born, rows, objects, used, lock, faults, lost, caught>>

BeginAdd(w, n) ==
  /\ born
  /\ req[w] = Idle
  /\ Become(w, [pc |-> "put", op |-> "add", new |-> << >>, want |-> n])
  /\ UNCHANGED <<born, rows, objects, used, lock, faults, lost, caught>>

Put(w) ==
  /\ req[w].pc = "put"
  /\ \E i \in Image \ used :
       LET new == Append(req[w].new, i) IN
       /\ used' = used \cup {i}
       /\ objects' = objects \cup {i}
       /\ Become(w, IF Len(new) < req[w].want THEN [req[w] EXCEPT !.new = new]
                    ELSE IF req[w].op = "publish" THEN Inserting(new)
                    ELSE [pc |-> "lock", op |-> "add", new |-> new])
  /\ UNCHANGED <<born, rows, lock, faults, lost, caught>>

(* Mutant: a failed upload forgets the objects before it. *)
PutFailsForgetting(w) ==
  /\ req[w].pc = "put"
  /\ Become(w, Idle)
  /\ UNCHANGED <<born, rows, objects, used, lock, faults, lost, caught>>

(* The store fails, or the upload is not an image. *)
PutFails(w) ==
  /\ req[w].pc = "put"
  /\ Become(w, Cleanup(req[w].new))
  /\ UNCHANGED <<born, rows, objects, used, lock, faults, lost, caught>>

BeginDelete(w, i) ==
  /\ req[w] = Idle
  /\ i \in used
  /\ Become(w, [pc |-> "lock", op |-> "delete", new |-> << >>, gone |-> i])
  /\ UNCHANGED <<born, rows, objects, used, lock, faults, lost, caught>>

-----------------------------------------------------------------------------

(* SELECT ... FOR UPDATE of the product and its images, then the change,   *)
(* unless the product, its seller or a pending intent forbids it.          *)
LockProduct(w) ==
  LET r == req[w] IN
  /\ r.pc = "lock"
  /\ lock = Free
  /\ \/ /\ r.op = "add"
        /\ Cardinality(Rows(rows)) + Len(r.new) <= MaxImages
        /\ Become(w, [pc |-> "write", op |-> "add", new |-> r.new, next |-> 1,
                      mine |-> rows, goal |-> Appended(rows, r.new)])
     \/ /\ r.op = "delete"
        /\ r.gone \in Rows(rows)
        /\ Become(w, [pc |-> "remove", op |-> "delete", new |-> << >>, gone |-> r.gone,
                      mine |-> rows, goal |-> Removed(rows, r.gone)])
  /\ lock' = w
  /\ UNCHANGED <<born, rows, objects, used, faults, lost, caught>>

Refuse(w) ==
  /\ req[w].pc = "lock"
  /\ lock = Free
  /\ Become(w, Cleanup(req[w].new))
  /\ UNCHANGED <<born, rows, objects, used, lock, faults, lost, caught>>

(* Mutant: rows are renumbered while the removed one still has its slot. *)
DeleteRowLater(w) ==
  /\ req[w].pc = "remove"
  /\ Become(w, [pc |-> "write", op |-> "delete", new |-> << >>, gone |-> req[w].gone,
                next |-> 1, mine |-> req[w].mine, goal |-> req[w].goal])
  /\ UNCHANGED <<born, rows, objects, used, lock, faults, lost, caught>>

(* DELETE of the removed row comes first and frees its slot. *)
DeleteRow(w) ==
  /\ req[w].pc = "remove"
  /\ Become(w, [pc |-> "write", op |-> "delete", new |-> << >>, gone |-> req[w].gone,
                next |-> 1, mine |-> [req[w].mine EXCEPT ![req[w].gone] = 0],
                goal |-> req[w].goal])
  /\ UNCHANGED <<born, rows, objects, used, lock, faults, lost, caught>>

(* The n-th image of a new order. *)
Nth(goal, n) ==
  CHOOSE x \in Rows(goal) : Cardinality({j \in Rows(goal) : goal[j] < goal[x]}) = n - 1

(* INSERT or UPDATE of the row that comes next in the new order; the       *)
(* unique index on the slot is checked at once.                            *)
WriteRow(w) ==
  LET r == req[w]
      i == Nth(r.goal, r.next)
      taken == \E j \in Image \ {i} : r.mine[j] = r.goal[i]
  IN
  /\ r.pc = "write"
  /\ r.next <= Cardinality(Rows(r.goal))
  /\ IF taken
     THEN caught' = TRUE /\ lock' = Free /\ Become(w, Cleanup(r.new))
     ELSE /\ Become(w, [r EXCEPT !.mine[i] = r.goal[i], !.next = @ + 1])
          /\ UNCHANGED <<caught, lock>>
  /\ UNCHANGED <<born, rows, objects, used, faults, lost>>

(* Mutant: the stored objects are discarded whether or not it failed. *)
AfterCommitDiscarding(r) ==
  IF r.op = "delete" THEN [pc |-> "erase", gone |-> r.gone] ELSE Cleanup(r.new)

(* A deleted image's object is erased after the commit. *)
AfterCommit(r) ==
  IF r.op = "delete" THEN [pc |-> "erase", gone |-> r.gone] ELSE Idle

Commit(w) ==
  LET r == req[w] IN
  /\ r.pc = "write"
  /\ r.next > Cardinality(Rows(r.goal))
  /\ rows' = r.mine
  /\ born' = TRUE
  /\ lock' = Free
  /\ Become(w, AfterCommit(r))
  /\ UNCHANGED <<objects, used, faults, lost, caught>>

(* The commit took place, but the connection or the deadline hides it.     *)
CommitLost(w) ==
  LET r == req[w] IN
  /\ r.pc = "write"
  /\ r.next > Cardinality(Rows(r.goal))
  /\ rows' = r.mine
  /\ born' = TRUE
  /\ lock' = Free
  /\ faults < MaxFaults
  /\ faults' = faults + 1
  /\ lost' = TRUE
  /\ Become(w, Cleanup(r.new))
  /\ UNCHANGED <<objects, used, caught>>

(* A statement or the commit fails: the transaction rolls back. *)
Abort(w) ==
  /\ req[w].pc \in {"remove", "write"}
  /\ lock' = Free
  /\ Become(w, Cleanup(req[w].new))
  /\ UNCHANGED <<born, rows, objects, used, faults, lost, caught>>

-----------------------------------------------------------------------------
(* After the transaction. *)

Discard(w) ==
  /\ req[w].pc = "discard"
  /\ objects' = objects \ {Head(req[w].new)}
  /\ Become(w, Cleanup(Tail(req[w].new)))
  /\ UNCHANGED <<born, rows, used, lock, faults, lost, caught>>

Erase(w) ==
  /\ req[w].pc = "erase"
  /\ objects' = objects \ {req[w].gone}
  /\ Become(w, Idle)
  /\ UNCHANGED <<born, rows, used, lock, faults, lost, caught>>

(* The store does not delete: the failure is logged and the work goes on.  *)
DeleteFails(w) ==
  /\ req[w].pc \in {"discard", "erase"}
  /\ faults < MaxFaults
  /\ faults' = faults + 1
  /\ Become(w, IF req[w].pc = "discard" THEN Cleanup(Tail(req[w].new)) ELSE Idle)
  /\ UNCHANGED <<born, rows, objects, used, lock, lost, caught>>

(* The process dies; the database rolls its transaction back. *)
Crash(w) ==
  /\ req[w] # Idle
  /\ faults < MaxFaults
  /\ faults' = faults + 1
  /\ lock' = IF lock = w THEN Free ELSE lock
  /\ Become(w, Idle)
  /\ UNCHANGED <<born, rows, objects, used, lost, caught>>

Next ==
  \E w \in Worker :
    \/ \E n \in 0..MaxImages : BeginPublish(w, n)
    \/ \E n \in 1..MaxImages : BeginAdd(w, n)
    \/ \E i \in Image : BeginDelete(w, i)
    \/ Put(w) \/ PutFails(w) \/ LockProduct(w) \/ Refuse(w)
    \/ DeleteRow(w) \/ WriteRow(w) \/ Commit(w) \/ CommitLost(w) \/ Abort(w)
    \/ Discard(w) \/ Erase(w) \/ DeleteFails(w) \/ Crash(w)

Spec == Init /\ [][Next]_vars

-----------------------------------------------------------------------------
(* Properties. *)

(* Committed images are numbered 1..N without gaps, whatever additions and *)
(* deletions overlapped or died; the first of them is the cover.           *)
SlotsContiguous ==
  /\ \A i \in Rows(rows) : rows[i] <= Cardinality(Rows(rows))
  /\ \A i, j \in Rows(rows) : rows[i] = rows[j] => i = j

(* The statements of a change are ordered so that none of them meets a     *)
(* slot that is still taken.                                               *)
IndexNeverRefuses == ~caught

(* Whatever else fails, wherever a request dies: an image a buyer can see   *)
(* has lost its object only if a commit succeeded that reported an error.  *)
MissingObjectsNeedLostCommit == ~lost => Rows(rows) \subseteq objects

(* Refused, failed and rolled back requests clean up: an object that no    *)
(* row references and no request is working on is the trace of a fault.    *)
OrphansNeedFaults ==
  (\A w \in Worker : req[w] = Idle) => Cardinality(objects \ Rows(rows)) <= MaxImages * faults
=============================================================================
