-------------------------- MODULE OwnershipRefinement --------------------------
(***************************************************************************)
(* Ownership implements Custody: the title of a piece is the list of       *)
(* clients in its ownership records, and a client holds it when the piece  *)
(* row has an owner.  That the owner on the row and the last record agree, *)
(* in spite of being two tables, is what makes the mapping work.           *)
(***************************************************************************)
EXTENDS Ownership

TitleOf(records) == [i \in 1..Len(records) |-> records[i].client]

Promise == INSTANCE Custody
  WITH title <- [p \in Pieces |-> TitleOf(ledger[p])],
       held <- {p \in Pieces : piece[p].owner \in Clients}

\* Every transaction of the API is a move of custody or leaves custody alone.
ImplementsCustody == Promise!Spec

================================================================================
