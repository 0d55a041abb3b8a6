---------------------------- MODULE MCMarketplace ----------------------------
(* Model values for checking Marketplace: see MCMarketplace*.cfg. *)
EXTENDS Marketplace, TLC

Symmetry ==
  Permutations(User) \cup Permutations(Product) \cup Permutations(Trade)
    \cup Permutations(Price) \cup Permutations(Key)
=============================================================================
