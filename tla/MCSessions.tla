------------------------------ MODULE MCSessions ------------------------------
(* Sessions with a few tokens and concurrent requests, for TLC. *)
EXTENDS Sessions, TLC

Symmetry == Permutations(Tokens) \cup Permutations(Families) \cup Permutations(Handlers)
===============================================================================
