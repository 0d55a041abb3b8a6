------------------------------ MODULE MCMessaging ------------------------------
(* Requests for checking Messaging: see MCMessaging.cfg. *)
EXTENDS Messaging, TLC

CONSTANTS b1, s1, p1, k1, c1, c2, w1, w2

Opening(k) == [op |-> "conversation.get_or_create", actor |-> b1, product |-> p1, key |-> k]
Sending(a, k) == [op |-> "message.send", actor |-> a, key |-> k]
Reading(a) == [op |-> "conversation.read", actor |-> a]

(* One buyer opens the conversation twice, both sides write and read. *)
Chat == {Opening(k1), Opening(NoKey), Sending(b1, k1), Sending(s1, NoKey), Reading(b1), Reading(s1)}

SoldBy(p) == s1

(* The first of the random parts. *)
Drawn == {<<0, 0>>}

(* Every command of the buyer hashes to the same lock number. *)
LockOf(id) == id.actor

Symmetry == Permutations(Worker) \cup Permutations(Conv)
=============================================================================
