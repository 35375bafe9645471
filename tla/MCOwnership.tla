------------------------------ MODULE MCOwnership ------------------------------
(* Ownership on a small house, for TLC. *)
EXTENDS OwnershipRefinement, TLC

\* Members, orders and transfers are interchangeable.
Symmetry ==
  Permutations(Clients) \cup Permutations(Orders) \cup Permutations(Transfers)
================================================================================
