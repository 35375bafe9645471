------------------------------ MODULE MCCheckout ------------------------------
(* Checkout on a small house, for TLC. *)
EXTENDS Checkout, TLC

\* Members, orders and threads are interchangeable.
Symmetry == Permutations(Clients) \cup Permutations(Orders) \cup Permutations(Threads)
===============================================================================
