--------------------------- MODULE MCRefundRecovery ---------------------------
(* Refund recovery on a small house, for TLC. *)
EXTENDS RefundRecovery, TLC
===============================================================================
