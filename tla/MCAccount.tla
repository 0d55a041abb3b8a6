------------------------------- MODULE MCAccount -------------------------------
(* Instances of Account: see MCAccount*.cfg. *)
EXTENDS Account, TLC
CONSTANTS u, n, w1, w2, pwA, pwB, nickA, nickB, wx

Symmetry == Permutations(Worker) \cup Permutations(Password) \cup Permutations(Nickname)
=============================================================================
