---------------------------------- MODULE Sale ----------------------------------
(***************************************************************************)
(* What the house promises about the money of a sale, with nothing of how  *)
(* it is kept.  Money is taken at most once and then stays, or is owed     *)
(* back, or goes back; a sale is settled only with money that was taken    *)
(* and is neither owed nor returned, and while it is settled nothing of it *)
(* is.  A debt is never forgotten: it ends with the money back, or with    *)
(* the office told of it, which may find it owed anew.  A settled sale may *)
(* be unwound, which no comment of the code allows, but failOrderPayment   *)
(* does.  Checkout implements this up to the refund, RefundRecovery the    *)
(* refund.                                                                 *)
(***************************************************************************)
CONSTANT Orders

VARIABLES money,   \* per order: none, taken, owed, told or returned
          settled  \* the orders whose goods were delivered for their money

saleVars == <<money, settled>>

Take(o) ==
  /\ money[o] = "none"
  /\ money' = [money EXCEPT ![o] = "taken"]
  /\ UNCHANGED settled

Settle(o) ==
  /\ money[o] = "taken"
  /\ settled' = settled \cup {o}
  /\ UNCHANGED money

Unwind(o) ==
  /\ settled' = settled \ {o}
  /\ UNCHANGED money

Owe(o) ==
  /\ money[o] \in {"taken", "told"}
  /\ o \notin settled
  /\ money' = [money EXCEPT ![o] = "owed"]
  /\ UNCHANGED settled

\* Those who keep the debts give this one up to the office.
Tell(o) ==
  /\ money[o] = "owed"
  /\ money' = [money EXCEPT ![o] = "told"]
  /\ UNCHANGED settled

\* At once, or what was owed, even when the office was told.
Return(o) ==
  /\ money[o] \in {"taken", "owed", "told"}
  /\ o \notin settled
  /\ money' = [money EXCEPT ![o] = "returned"]
  /\ UNCHANGED settled

Init ==
  /\ money \in [Orders -> {"none", "taken"}]
  /\ settled = {}

Next == \E o \in Orders : Take(o) \/ Settle(o) \/ Unwind(o) \/ Owe(o) \/ Tell(o)
                            \/ Return(o)

Spec == Init /\ [][Next]_saleVars

=================================================================================
