---------------------------- MODULE MCProductImages ----------------------------
(* Instances of ProductImages: see MCProductImages*.cfg. *)
EXTENDS ProductImages, TLC
CONSTANTS i1, i2, i3, i4, i5, w1, w2

Symmetry == Permutations(Image) \cup Permutations(Worker)
=============================================================================
