------------------------------- MODULE MCAccess -------------------------------
(* Access with two requests and two handlers, for TLC. *)
EXTENDS Access, TLC

Symmetry == Permutations(Requests) \cup Permutations(Handlers) \cup Permutations(Classes)
===============================================================================
