-------------------------------- MODULE Custody --------------------------------
(***************************************************************************)
(* What the house promises of a piece, with nothing of how it is kept: at  *)
(* any time the house or one client holds it, and everyone who ever held   *)
(* it stays on record, in order.  Clients get pieces from the house, give  *)
(* them back to it, or pass them to another client; the pieces of an order *)
(* move together.  Ownership implements this (OwnershipRefinement).        *)
(***************************************************************************)
EXTENDS Naturals, Sequences

CONSTANTS Clients, Pieces

VARIABLES title,  \* per piece, the clients who have held it, oldest first
          held    \* the pieces that a client, the last of their title, holds

custodyVars == <<title, held>>

Holder(p) == title[p][Len(title[p])]

\* The house gives free pieces to one client: a sale, a gift, a registration
\* in a client's name.
Grant(S, c) ==
  /\ S \cap held = {}
  /\ title' = [p \in Pieces |-> IF p \in S THEN Append(title[p], c) ELSE title[p]]
  /\ held' = held \cup S

\* One client gives pieces back to the house.
Return(S, c) ==
  /\ S \subseteq held
  /\ \A p \in S : Holder(p) = c
  /\ held' = held \ S
  /\ UNCHANGED title

\* The holder passes a piece to another client.
Pass(p, d) ==
  /\ p \in held
  /\ d # Holder(p)
  /\ title' = [title EXCEPT ![p] = Append(@, d)]
  /\ UNCHANGED held

Init ==
  /\ title = [p \in Pieces |-> <<>>]
  /\ held = {}

Next ==
  \/ \E S \in SUBSET Pieces, c \in Clients : Grant(S, c) \/ Return(S, c)
  \/ \E p \in Pieces, d \in Clients : Pass(p, d)

Spec == Init /\ [][Next]_custodyVars

================================================================================
