---------------------------- MODULE OwnershipProofs ----------------------------
(***************************************************************************)
(* Theorems about Ownership, for every set of clients, pieces, orders and  *)
(* transfers.                                                              *)
(***************************************************************************)
EXTENDS OwnershipRefinement, SequenceTheorems, TLAPS

-----------------------------------------------------------------------------
(* What the shared helpers do. *)

\* Closing the records of a client keeps every record in its place, changes no
\* client, opens nothing, and leaves none of that client's records open.
LEMMA ClosedFacts ==
  ASSUME NEW records \in Seq(OwnershipRecord), NEW c
  PROVE  /\ Closed(records, c) \in Seq(OwnershipRecord)
         /\ Len(Closed(records, c)) = Len(records)
         /\ DOMAIN Closed(records, c) = DOMAIN records
         /\ \A i \in DOMAIN records :
              /\ Closed(records, c)[i].client = records[i].client
              /\ Closed(records, c)[i].open <=> (records[i].open /\ records[i].client # c)
<1> DEFINE cl == Closed(records, c)
<1>0. DOMAIN records = 1..Len(records) /\ \A i \in 1..Len(records) : records[i] \in OwnershipRecord
  OBVIOUS
<1>1. \A i \in 1..Len(records) :
        /\ records[i] \in OwnershipRecord
        /\ cl[i] = IF records[i].client = c THEN [records[i] EXCEPT !.open = FALSE]
                                            ELSE records[i]
  BY <1>0 DEF Closed
<1>2. \A i \in 1..Len(records) :
        /\ cl[i] \in OwnershipRecord
        /\ cl[i].client = records[i].client
        /\ cl[i].open <=> (records[i].open /\ records[i].client # c)
  BY <1>1 DEF OwnershipRecord
<1>3. cl \in Seq(OwnershipRecord) /\ Len(cl) = Len(records) /\ DOMAIN cl = DOMAIN records
  <2>1. DOMAIN cl = 1..Len(records)
    BY DEF Closed
  <2>2. cl = [i \in 1..Len(records) |-> cl[i]]
    BY DEF Closed
  <2>3. Len(records) \in Nat
    OBVIOUS
  <2> QED
    BY <1>2, <2>1, <2>2, <2>3
<1> QED
  BY <1>2, <1>3

\* Conveying leaves every row with its type.
LEMMA ConveyType ==
  ASSUME TypeOK, NEW S \in SUBSET Pieces, NEW c \in Clients, Convey(S, c)
  PROVE  /\ piece' \in [Pieces -> [status : PieceStatus, owner : Owner]]
         /\ ledger' \in [Pieces -> Seq(OwnershipRecord)]
         /\ outbox' \in [Pieces -> Seq(Clients)]
<1>1. [status |-> "OWNED", owner |-> c] \in [status : PieceStatus, owner : Owner]
  BY DEF PieceStatus, Owner
<1>2. [client |-> c, open |-> TRUE] \in OwnershipRecord
  BY DEF OwnershipRecord
<1>3. \A p \in Pieces : /\ Append(ledger[p], [client |-> c, open |-> TRUE]) \in Seq(OwnershipRecord)
                        /\ Append(outbox[p], c) \in Seq(Clients)
  BY <1>2 DEF TypeOK
<1> QED
  BY <1>1, <1>3 DEF TypeOK, Convey

-----------------------------------------------------------------------------
(* The inductive invariant. *)

\* An order that exists has a buyer; one that does not has not been paid.
OrdersWellFormed ==
  \A o \in Orders : IF order[o].status = "NONE" THEN order[o].pay = "PENDING"
                                                ELSE order[o].client \in Clients

Consistent ==
  /\ OrdersWellFormed
  /\ PieceOwnedHasOwner
  /\ LedgerMatchesOwner
  /\ TransferMatchesPiece
  /\ OutboxMatchesLedger
  /\ PaidOrdersDelivered

\* No part is inductive alone: the ledger agrees with the owner after a
\* conveyance only if an available piece had no owner, an approved transfer
\* closes the right record only if its sender is still the owner, and a
\* confirmed order has delivered a piece its buyer already owns only if that
\* owner is in the ledger.
IInv == TypeOK /\ Consistent

-----------------------------------------------------------------------------
(* Type correctness. *)

LEMMA InitTypeOK == Init => TypeOK
BY PiecesAssumption
   DEF Init, TypeOK, PieceStatus, OrderStatus, PaymentStatus, TransferStatus, Owner

LEMMA SetStatusType ==
  ASSUME TypeOK, NEW p \in Pieces, NEW s \in PieceStatus, SetStatus(p, s)
  PROVE  piece' \in [Pieces -> [status : PieceStatus, owner : Owner]]
BY DEF SetStatus, TypeOK

LEMMA HouseStepTypeOK == TypeOK /\ (HouseStep \/ CertificateStep) => TypeOK'
<1> SUFFICES ASSUME TypeOK, HouseStep \/ CertificateStep PROVE TypeOK'
  OBVIOUS
<1>1. ASSUME NEW p \in Pieces, NEW c \in Owner, RegisterPiece(p, c) PROVE TypeOK'
  <2>1. CASE c \in Clients /\ Convey({p}, c)
    BY <1>1, <2>1, ConveyType DEF RegisterPiece, TypeOK
  <2>2. CASE SetStatus(p, "AVAILABLE") /\ UNCHANGED <<ledger, outbox>>
    <3>1. UNCHANGED <<order, transfer, certificate>>
      BY <1>1 DEF RegisterPiece
    <3>2. piece' \in [Pieces -> [status : PieceStatus, owner : Owner]]
      BY <2>2, SetStatusType DEF PieceStatus
    <3> QED
      BY <2>2, <3>1, <3>2 DEF TypeOK
  <2> QED
    BY <1>1, <2>1, <2>2 DEF RegisterPiece
<1>2. ASSUME NEW p \in Pieces, NEW s \in PieceStatus, UpdatePiece(p, s) PROVE TypeOK'
  BY <1>2 DEF UpdatePiece, TypeOK, SetStatus
<1>3. ASSUME NEW p \in Pieces, NEW c \in Clients, AssignPiece(p, c) PROVE TypeOK'
  BY <1>3, ConveyType DEF AssignPiece, TypeOK
<1>4. ASSUME NEW p \in Pieces, NEW i \in DOMAIN outbox[p], IssueCertificate(p, i) PROVE TypeOK'
  BY <1>4 DEF IssueCertificate, TypeOK, Owner
<1> QED
  BY <1>1, <1>2, <1>3, <1>4 DEF HouseStep, CertificateStep

OrderRow ==
  [status : OrderStatus, pay : PaymentStatus, client : Owner, items : SUBSET Pieces]

LEMMA OrderRowType ==
  ASSUME TypeOK, NEW o \in Orders, NEW s \in OrderStatus, NEW y \in PaymentStatus,
         order' = [order EXCEPT ![o].status = s, ![o].pay = y]
  PROVE  order' \in [Orders -> OrderRow]
<1>1. order \in [Orders -> OrderRow]
  BY DEF TypeOK, OrderRow
<1>2. [order[o] EXCEPT !.status = s, !.pay = y] \in OrderRow
  BY <1>1 DEF OrderRow
<1>3. order' = [order EXCEPT ![o] = [order[o] EXCEPT !.status = s, !.pay = y]]
  BY <1>1
<1> QED
  BY <1>1, <1>2, <1>3

LEMMA OrderStatusType ==
  ASSUME TypeOK, NEW o \in Orders, NEW s \in OrderStatus,
         order' = [order EXCEPT ![o].status = s]
  PROVE  order' \in [Orders -> OrderRow]
<1>1. order \in [Orders -> OrderRow]
  BY DEF TypeOK, OrderRow
<1>2. [order[o] EXCEPT !.status = s] \in OrderRow
  BY <1>1 DEF OrderRow
<1>3. order' = [order EXCEPT ![o] = [order[o] EXCEPT !.status = s]]
  BY <1>1
<1> QED
  BY <1>1, <1>2, <1>3

LEMMA OrderStepTypeOK == TypeOK /\ OrdersWellFormed /\ OrderStep => TypeOK'
<1> SUFFICES ASSUME TypeOK, OrdersWellFormed, NEW o \in Orders,
                    \/ \E c \in Clients, S \in SUBSET Pieces : PlaceOrder(o, c, S)
                    \/ ConfirmOrder(o)
                    \/ CancelWrite(o)
                    \/ FailWrite(o)
                    \/ \E s \in OrderStatus : UpdateOrderStatus(o, s)
                    \/ RefundOrder(o)
             PROVE  TypeOK'
  BY DEF OrderStep
<1> USE DEF OrderStatus, PaymentStatus
<1>1. ASSUME NEW c \in Clients, NEW S \in SUBSET Pieces, PlaceOrder(o, c, S) PROVE TypeOK'
  BY <1>1 DEF PlaceOrder, TypeOK, Owner
<1>2. CASE ConfirmOrder(o)
  <2> DEFINE S == {p \in order[o].items : piece[p].status = "AVAILABLE"}
  <2>1. order[o].client \in Clients /\ S \in SUBSET Pieces
    BY <1>2 DEF ConfirmOrder, Confirmable, OrdersWellFormed, TypeOK
  <2>2. Convey(S, order[o].client)
    BY <1>2 DEF ConfirmOrder
  <2> HIDE DEF S
  <2>3. /\ piece' \in [Pieces -> [status : PieceStatus, owner : Owner]]
        /\ ledger' \in [Pieces -> Seq(OwnershipRecord)]
        /\ outbox' \in [Pieces -> Seq(Clients)]
    BY <2>1, <2>2, ConveyType
  <2>4. order' \in [Orders -> OrderRow]
    BY <1>2, OrderRowType DEF ConfirmOrder
  <2>5. UNCHANGED <<transfer, certificate>>
    BY <1>2 DEF ConfirmOrder
  <2> QED
    BY <2>3, <2>4, <2>5 DEF TypeOK, OrderRow
<1>3. CASE CancelWrite(o)
  <2>1. order' \in [Orders -> OrderRow]
    BY <1>3, OrderStatusType DEF CancelWrite
  <2> QED
    BY <1>3, <2>1 DEF CancelWrite, TypeOK, OrderRow
<1>4. CASE FailWrite(o)
  <2>1. order' \in [Orders -> OrderRow]
    BY <1>4, OrderRowType DEF FailWrite
  <2> QED
    BY <1>4, <2>1 DEF FailWrite, TypeOK, OrderRow
<1>5. ASSUME NEW s \in OrderStatus, UpdateOrderStatus(o, s) PROVE TypeOK'
  <2>1. order' \in [Orders -> OrderRow]
    BY <1>5, OrderStatusType DEF UpdateOrderStatus
  <2> QED
    BY <1>5, <2>1 DEF UpdateOrderStatus, TypeOK, OrderRow
<1>6. CASE RefundOrder(o)
  <2>1. \A p \in Pieces : Closed(ledger[p], order[o].client) \in Seq(OwnershipRecord)
    BY ClosedFacts DEF TypeOK
  <2>2. piece' \in [Pieces -> [status : PieceStatus, owner : Owner]]
    BY <1>6 DEF RefundOrder, TypeOK, PieceStatus, Owner
  <2>3. ledger' \in [Pieces -> Seq(OwnershipRecord)]
    BY <1>6, <2>1 DEF RefundOrder, TypeOK
  <2>4. certificate' \in [Pieces -> Owner]
    BY <1>6 DEF RefundOrder, TypeOK, Owner
  <2>5. order' \in [Orders -> OrderRow]
    BY <1>6, OrderRowType DEF RefundOrder
  <2> QED
    BY <1>6, <2>2, <2>3, <2>4, <2>5 DEF RefundOrder, TypeOK, OrderRow
<1> QED
  BY <1>1, <1>2, <1>3, <1>4, <1>5, <1>6

TransferRow == [status : TransferStatus, piece : Pieces, from : Owner, to : Owner]

LEMMA TransferStatusType ==
  ASSUME TypeOK, NEW t \in Transfers, NEW s \in TransferStatus,
         transfer' = [transfer EXCEPT ![t].status = s]
  PROVE  transfer' \in [Transfers -> TransferRow]
<1>1. transfer \in [Transfers -> TransferRow]
  BY DEF TypeOK, TransferRow
<1>2. [transfer[t] EXCEPT !.status = s] \in TransferRow
  BY <1>1 DEF TransferRow
<1>3. transfer' = [transfer EXCEPT ![t] = [transfer[t] EXCEPT !.status = s]]
  BY <1>1
<1> QED
  BY <1>1, <1>2, <1>3

LEMMA TransferStepTypeOK == TypeOK /\ TransferMatchesPiece /\ TransferStep => TypeOK'
<1> SUFFICES ASSUME TypeOK, TransferMatchesPiece, NEW t \in Transfers,
                    \/ \E p \in Pieces, c, d \in Clients : InitiateTransfer(t, p, c, d)
                    \/ ConfirmSender(t)
                    \/ ConfirmRecipient(t)
                    \/ CancelTransfer(t)
                    \/ RejectTransfer(t)
                    \/ ApproveTransfer(t)
             PROVE  TypeOK'
  BY DEF TransferStep
<1> USE DEF TransferStatus, PieceStatus
<1>1. ASSUME NEW p \in Pieces, NEW c \in Clients, NEW d \in Clients, InitiateTransfer(t, p, c, d)
      PROVE  TypeOK'
  <2>1. piece' \in [Pieces -> [status : PieceStatus, owner : Owner]]
    BY <1>1, SetStatusType DEF InitiateTransfer
  <2>2. transfer' \in [Transfers -> TransferRow]
    BY <1>1 DEF InitiateTransfer, TypeOK, TransferRow, Owner
  <2> QED
    BY <1>1, <2>1, <2>2 DEF InitiateTransfer, TypeOK, TransferRow
<1>2. CASE ConfirmSender(t)
  <2>1. transfer' \in [Transfers -> TransferRow]
    BY <1>2, TransferStatusType DEF ConfirmSender
  <2> QED
    BY <1>2, <2>1 DEF ConfirmSender, TypeOK, TransferRow
<1>3. CASE ConfirmRecipient(t)
  <2>1. transfer' \in [Transfers -> TransferRow]
    BY <1>3, TransferStatusType DEF ConfirmRecipient
  <2> QED
    BY <1>3, <2>1 DEF ConfirmRecipient, TypeOK, TransferRow
<1>4. CASE CancelTransfer(t)
  <2>1. piece' \in [Pieces -> [status : PieceStatus, owner : Owner]]
    <3>1. transfer[t].piece \in Pieces /\ SetStatus(transfer[t].piece, "OWNED")
      BY <1>4 DEF CancelTransfer, TypeOK
    <3> QED
      BY <3>1, SetStatusType
  <2>2. transfer' \in [Transfers -> TransferRow]
    BY <1>4, TransferStatusType DEF CancelTransfer
  <2> QED
    BY <1>4, <2>1, <2>2 DEF CancelTransfer, TypeOK, TransferRow
<1>5. CASE RejectTransfer(t)
  <2>1. piece' \in [Pieces -> [status : PieceStatus, owner : Owner]]
    <3>1. transfer[t].piece \in Pieces /\ SetStatus(transfer[t].piece, "OWNED")
      BY <1>5 DEF RejectTransfer, TypeOK
    <3> QED
      BY <3>1, SetStatusType
  <2>2. transfer' \in [Transfers -> TransferRow]
    BY <1>5, TransferStatusType DEF RejectTransfer
  <2> QED
    BY <1>5, <2>1, <2>2 DEF RejectTransfer, TypeOK, TransferRow
<1>6. CASE ApproveTransfer(t)
  <2> DEFINE p == transfer[t].piece
             c == transfer[t].from
             d == transfer[t].to
  <2>1. p \in Pieces /\ d \in Clients
    BY <1>6 DEF ApproveTransfer, TransferMatchesPiece, IsActive, TypeOK
  <2>2. Append(Closed(ledger[p], c), [client |-> d, open |-> TRUE]) \in Seq(OwnershipRecord)
    <3>1. Closed(ledger[p], c) \in Seq(OwnershipRecord)
      BY <2>1, ClosedFacts DEF TypeOK
    <3> QED
      BY <2>1, <3>1 DEF OwnershipRecord
  <2>3. Append(outbox[p], d) \in Seq(Clients)
    BY <2>1 DEF TypeOK
  <2>4. piece' \in [Pieces -> [status : PieceStatus, owner : Owner]]
    BY <1>6, <2>1 DEF ApproveTransfer, TypeOK, Owner
  <2>5. ledger' \in [Pieces -> Seq(OwnershipRecord)] /\ outbox' \in [Pieces -> Seq(Clients)]
    BY <1>6, <2>2, <2>3 DEF ApproveTransfer, TypeOK
  <2>6. transfer' \in [Transfers -> TransferRow]
    BY <1>6, TransferStatusType DEF ApproveTransfer
  <2>7. certificate' \in [Pieces -> Owner]
    BY <1>6 DEF ApproveTransfer, TypeOK, Owner
  <2> QED
    BY <1>6, <2>4, <2>5, <2>6, <2>7 DEF ApproveTransfer, TypeOK, TransferRow
<1> QED
  BY <1>1, <1>2, <1>3, <1>4, <1>5, <1>6

-----------------------------------------------------------------------------
(* Effects that several actions share. *)

\* Appending one element: its length, its last element and the others.
LEMMA AppendFacts ==
  ASSUME NEW T, NEW s \in Seq(T), NEW e \in T
  PROVE  /\ Append(s, e) \in Seq(T)
         /\ Len(Append(s, e)) = Len(s) + 1
         /\ DOMAIN s = 1..Len(s)
         /\ DOMAIN Append(s, e) = 1..(Len(s) + 1)
         /\ \A i \in 1..Len(s) : Append(s, e)[i] = s[i]
         /\ Append(s, e)[Len(s) + 1] = e
BY AppendProperties

\* Conveying pieces that nobody owns keeps the piece rows, the history, the
\* transfers and the certificate requests consistent.
LEMMA ConveyKeeps ==
  ASSUME TypeOK, PieceOwnedHasOwner, LedgerMatchesOwner, TransferMatchesPiece,
         OutboxMatchesLedger,
         NEW S \in SUBSET Pieces, NEW c \in Clients,
         Convey(S, c), \A p \in S : piece[p].owner \notin Clients,
         UNCHANGED transfer
  PROVE  /\ PieceOwnedHasOwner'
         /\ LedgerMatchesOwner'
         /\ TransferMatchesPiece'
         /\ OutboxMatchesLedger'
         /\ LedgerAppendOnly
<1> DEFINE record == [client |-> c, open |-> TRUE]
<1>1. record \in OwnershipRecord /\ record.client = c /\ record.open
  BY DEF OwnershipRecord
<1>2. /\ \A p \in S : /\ piece'[p] = [status |-> "OWNED", owner |-> c]
                      /\ ledger'[p] = Append(ledger[p], record)
                      /\ outbox'[p] = Append(outbox[p], c)
      /\ \A p \in Pieces \ S : /\ piece'[p] = piece[p]
                                /\ ledger'[p] = ledger[p]
                                /\ outbox'[p] = outbox[p]
  BY DEF Convey
<1> HIDE DEF record
<1>3. \A p \in Pieces : ledger[p] \in Seq(OwnershipRecord) /\ outbox[p] \in Seq(Clients)
  BY DEF TypeOK
<1>0. \A p \in Pieces : /\ Len(ledger[p]) \in Nat
                        /\ DOMAIN ledger[p] = 1..Len(ledger[p])
                        /\ \A i \in 1..Len(ledger[p]) : ledger[p][i] \in OwnershipRecord
  BY <1>3
<1>10. \A p \in S :
                   /\ Len(ledger'[p]) = Len(ledger[p]) + 1
                   /\ DOMAIN ledger'[p] = 1..(Len(ledger[p]) + 1)
                   /\ \A i \in 1..Len(ledger[p]) : ledger'[p][i] = ledger[p][i]
                   /\ ledger'[p][Len(ledger[p]) + 1].client = c
                   /\ ledger'[p][Len(ledger[p]) + 1].open
  <2> SUFFICES ASSUME NEW p \in S
               PROVE  /\ Len(ledger'[p]) = Len(ledger[p]) + 1
                      /\ DOMAIN ledger'[p] = 1..(Len(ledger[p]) + 1)
                      /\ \A i \in 1..Len(ledger[p]) : ledger'[p][i] = ledger[p][i]
                      /\ ledger'[p][Len(ledger[p]) + 1] = record
    BY <1>1
  <2> QED
    BY <1>1, <1>2, <1>3, AppendFacts
<1>11. \A p \in S :
                   /\ Len(outbox'[p]) = Len(outbox[p]) + 1
                   /\ \A i \in 1..Len(outbox[p]) : outbox'[p][i] = outbox[p][i]
                   /\ outbox'[p][Len(outbox[p]) + 1] = c
  BY <1>2, <1>3, AppendFacts
<1>4. PieceOwnedHasOwner'
  BY <1>2 DEF PieceOwnedHasOwner
<1>5. LedgerMatchesOwner'
  <2> SUFFICES ASSUME NEW p \in Pieces
               PROVE  /\ \A i \in DOMAIN ledger'[p] :
                           ledger'[p][i].open =>
                             /\ i = Len(ledger'[p])
                             /\ ledger'[p][i].client = piece'[p].owner
                      /\ piece'[p].owner \in Clients =>
                           Len(ledger'[p]) > 0 /\ ledger'[p][Len(ledger'[p])].open
    BY DEF LedgerMatchesOwner
  <2>1. CASE p \in S
    <3>1. \A i \in 1..Len(ledger[p]) : ~ledger[p][i].open
      BY <1>0, <2>1 DEF LedgerMatchesOwner, OwnershipRecord
    <3>2. piece'[p].owner = c
      BY <1>2, <2>1
    <3>3. ASSUME NEW i \in 1..(Len(ledger[p]) + 1), ledger'[p][i].open
          PROVE  i = Len(ledger[p]) + 1
      BY <1>0, <1>10, <2>1, <3>1, <3>3
    <3> QED
      BY <1>0, <1>10, <2>1, <3>2, <3>3
  <2>2. CASE p \notin S
    BY <1>2, <2>2 DEF LedgerMatchesOwner
  <2> QED
    BY <2>1, <2>2
<1>6. TransferMatchesPiece'
  <2>1. \A t \in Transfers : IsActive(t) => transfer[t].piece \in Pieces \ S
    BY DEF TransferMatchesPiece, PieceOwnedHasOwner, TypeOK
  <2> QED
    BY <1>2, <2>1 DEF TransferMatchesPiece, IsActive
<1>7. OutboxMatchesLedger'
  <2> SUFFICES ASSUME NEW p \in Pieces
               PROVE  /\ Len(outbox'[p]) = Len(ledger'[p])
                      /\ \A i \in DOMAIN ledger'[p] : outbox'[p][i] = ledger'[p][i].client
    BY DEF OutboxMatchesLedger
  <2>1. CASE p \in S
    <3>1. /\ Len(outbox[p]) = Len(ledger[p])
          /\ \A i \in 1..Len(ledger[p]) : outbox[p][i] = ledger[p][i].client
      BY <1>0 DEF OutboxMatchesLedger
    <3>2. Len(outbox'[p]) = Len(ledger'[p])
      BY <1>10, <1>11, <2>1, <3>1
    <3>3. ASSUME NEW i \in 1..(Len(ledger[p]) + 1) PROVE outbox'[p][i] = ledger'[p][i].client
      <4>1. CASE i = Len(ledger[p]) + 1
        BY <1>10, <1>11, <2>1, <3>1, <4>1
      <4>2. CASE i \in 1..Len(ledger[p])
        BY <1>10, <1>11, <2>1, <3>1, <4>2
      <4> QED
        BY <1>0, <4>1, <4>2
    <3> QED
      BY <1>10, <2>1, <3>2, <3>3
  <2>2. CASE p \notin S
    BY <1>2, <2>2 DEF OutboxMatchesLedger
  <2> QED
    BY <2>1, <2>2
<1>8. LedgerAppendOnly
  <2> SUFFICES ASSUME NEW p \in Pieces
               PROVE  /\ Len(ledger'[p]) >= Len(ledger[p])
                      /\ \A i \in DOMAIN ledger[p] :
                           /\ ledger'[p][i].client = ledger[p][i].client
                           /\ ledger'[p][i].open => ledger[p][i].open
    BY DEF LedgerAppendOnly
  <2>1. CASE p \in S
    BY <1>0, <1>10, <2>1
  <2>2. CASE p \notin S
    BY <1>2, <1>3, <2>2
  <2> QED
    BY <2>1, <2>2
<1> QED
  BY <1>4, <1>5, <1>6, <1>7, <1>8

\* Steps that leave owners, history and requests alone keep what relates them.
LEMMA SameOwnersKeep ==
  ASSUME TypeOK, LedgerMatchesOwner, OutboxMatchesLedger,
         \A p \in Pieces : piece'[p].owner = piece[p].owner,
         UNCHANGED <<ledger, outbox>>
  PROVE  /\ LedgerMatchesOwner'
         /\ OutboxMatchesLedger'
         /\ LedgerAppendOnly
         /\ LossesAccountedFor
<1>1. \A p \in Pieces : Len(ledger[p]) \in Nat
  BY DEF TypeOK
<1> QED
  BY <1>1 DEF LedgerMatchesOwner, OutboxMatchesLedger, LedgerAppendOnly, LossesAccountedFor

\* A history that only grows keeps every delivery on record.
LEMMA DeliveriesKeep ==
  ASSUME TypeOK, PaidOrdersDelivered, LedgerAppendOnly, NEW o \in Orders,
         order'[o].pay = "PAID", order[o].pay = "PAID",
         order'[o].client = order[o].client, order'[o].items = order[o].items,
         ledger' \in [Pieces -> Seq(OwnershipRecord)]
  PROVE  \A p \in order'[o].items :
           \E i \in DOMAIN ledger'[p] : ledger'[p][i].client = order'[o].client
<1> TAKE p \in order'[o].items
<1>1. p \in Pieces /\ p \in order[o].items
  BY DEF TypeOK
<1>2. PICK i \in DOMAIN ledger[p] : ledger[p][i].client = order[o].client
  BY <1>1 DEF PaidOrdersDelivered
<1>3. /\ DOMAIN ledger[p] = 1..Len(ledger[p]) /\ Len(ledger[p]) \in Nat
      /\ DOMAIN ledger'[p] = 1..Len(ledger'[p]) /\ Len(ledger'[p]) \in Nat
  BY <1>1 DEF TypeOK
<1>4. i \in DOMAIN ledger'[p] /\ ledger'[p][i].client = order'[o].client
  BY <1>1, <1>2, <1>3 DEF LedgerAppendOnly
<1> QED
  BY <1>4

-----------------------------------------------------------------------------
(* Each action keeps the tables consistent. *)

LEMMA HouseStepKeeps ==
  IInv /\ TypeOK' /\ (HouseStep \/ CertificateStep)
    => Consistent' /\ LedgerAppendOnly /\ LossesAccountedFor
<1> SUFFICES ASSUME IInv, TypeOK', NEW p \in Pieces,
                    \/ \E c \in Owner : RegisterPiece(p, c)
                    \/ \E s \in PieceStatus : UpdatePiece(p, s)
                    \/ \E c \in Clients : AssignPiece(p, c)
                    \/ \E i \in DOMAIN outbox[p] : IssueCertificate(p, i)
             PROVE  Consistent' /\ LedgerAppendOnly /\ LossesAccountedFor
  BY DEF HouseStep, CertificateStep
<1> USE DEF IInv, Consistent
<1>0. UNCHANGED <<order, transfer>>
  BY DEF RegisterPiece, UpdatePiece, AssignPiece, IssueCertificate
<1>1. ASSUME LedgerAppendOnly PROVE OrdersWellFormed' /\ PaidOrdersDelivered'
  <2>1. OrdersWellFormed'
    BY <1>0 DEF OrdersWellFormed
  <2>2. PaidOrdersDelivered'
    BY <1>0, <1>1, DeliveriesKeep DEF PaidOrdersDelivered, TypeOK
  <2> QED
    BY <2>1, <2>2
<1>2. ASSUME NEW c \in Clients, Convey({p}, c), piece[p].status \in {"ABSENT", "AVAILABLE"}
      PROVE  Consistent' /\ LedgerAppendOnly /\ LossesAccountedFor
  <2>1. piece[p].owner \notin Clients
    BY <1>2 DEF PieceOwnedHasOwner
  <2>2. /\ PieceOwnedHasOwner' /\ LedgerMatchesOwner' /\ TransferMatchesPiece'
        /\ OutboxMatchesLedger' /\ LedgerAppendOnly
    BY <1>0, <1>2, <2>1, ConveyKeeps
  <2>3. LossesAccountedFor
    <3>1. \A q \in Pieces \ {p} : piece'[q] = piece[q]
      BY <1>2 DEF Convey
    <3> QED
      BY <2>1, <3>1 DEF LossesAccountedFor
  <2> QED
    BY <1>1, <2>2, <2>3
<1>3. ASSUME NEW s \in {"AVAILABLE", "RETIRED"}, SetStatus(p, s), piece[p].owner \notin Clients,
             UNCHANGED <<ledger, outbox>>
      PROVE  Consistent' /\ LedgerAppendOnly /\ LossesAccountedFor
  <2>1. \A q \in Pieces : piece'[q] = IF q = p THEN [piece[p] EXCEPT !.status = s] ELSE piece[q]
    BY <1>3 DEF SetStatus, TypeOK
  <2>2. \A q \in Pieces : piece'[q].owner = piece[q].owner
    BY <2>1 DEF TypeOK
  <2>3. LedgerMatchesOwner' /\ OutboxMatchesLedger' /\ LedgerAppendOnly /\ LossesAccountedFor
    BY <1>3, <2>2, SameOwnersKeep
  <2>4. piece'[p].status = s
    BY <2>1 DEF TypeOK
  <2>5. PieceOwnedHasOwner'
    BY <1>3, <2>1, <2>2, <2>4 DEF PieceOwnedHasOwner
  <2>6. TransferMatchesPiece'
    <3>1. \A t \in Transfers : IsActive(t) => transfer[t].piece \in Pieces \ {p}
      BY <1>3 DEF TransferMatchesPiece, PieceOwnedHasOwner, TypeOK
    <3> QED
      BY <1>0, <1>3, <2>1, <2>4, <3>1 DEF TransferMatchesPiece, IsActive
  <2> QED
    BY <1>1, <2>3, <2>5, <2>6
<1>4. ASSUME NEW c \in Owner, RegisterPiece(p, c)
      PROVE  Consistent' /\ LedgerAppendOnly /\ LossesAccountedFor
  <2>1. piece[p].owner \notin Clients
    BY <1>4 DEF RegisterPiece, PieceOwnedHasOwner
  <2> QED
    BY <1>2, <1>3, <1>4, <2>1 DEF RegisterPiece
<1>5. ASSUME NEW s \in PieceStatus, UpdatePiece(p, s)
      PROVE  Consistent' /\ LedgerAppendOnly /\ LossesAccountedFor
  BY <1>3, <1>5, NoClientAssumption DEF UpdatePiece
<1>6. ASSUME NEW c \in Clients, AssignPiece(p, c)
      PROVE  Consistent' /\ LedgerAppendOnly /\ LossesAccountedFor
  BY <1>2, <1>6 DEF AssignPiece
<1>7. ASSUME NEW i \in DOMAIN outbox[p], IssueCertificate(p, i)
      PROVE  Consistent' /\ LedgerAppendOnly /\ LossesAccountedFor
  <2>1. UNCHANGED <<piece, ledger, order, transfer, outbox>>
    BY <1>7 DEF IssueCertificate
  <2>2. LedgerMatchesOwner' /\ OutboxMatchesLedger' /\ LedgerAppendOnly /\ LossesAccountedFor
    BY <2>1, SameOwnersKeep
  <2>3. PieceOwnedHasOwner' /\ TransferMatchesPiece'
    BY <2>1 DEF PieceOwnedHasOwner, TransferMatchesPiece, IsActive
  <2> QED
    BY <1>1, <2>2, <2>3
<1> QED
  BY <1>4, <1>5, <1>6, <1>7

LEMMA OrderStepKeeps ==
  IInv /\ TypeOK' /\ OrderStep => Consistent' /\ LedgerAppendOnly /\ LossesAccountedFor
<1> SUFFICES ASSUME IInv, TypeOK', NEW o \in Orders,
                    \/ \E c \in Clients, S \in SUBSET Pieces : PlaceOrder(o, c, S)
                    \/ ConfirmOrder(o)
                    \/ CancelWrite(o)
                    \/ FailWrite(o)
                    \/ \E s \in OrderStatus : UpdateOrderStatus(o, s)
                    \/ RefundOrder(o)
             PROVE  Consistent' /\ LedgerAppendOnly /\ LossesAccountedFor
  BY DEF OrderStep
<1> USE DEF IInv, Consistent
<1>0. transfer' = transfer
  BY DEF PlaceOrder, ConfirmOrder, CancelWrite, FailWrite, UpdateOrderStatus, RefundOrder
\* The steps that write the order alone, and leave it no more paid than it was.
<1>1. ASSUME UNCHANGED <<piece, ledger, outbox>>, NEW row,
             order' = [order EXCEPT ![o] = row],
             row.pay = "PAID" => /\ order[o].pay = "PAID"
                                 /\ row.client = order[o].client
                                 /\ row.items = order[o].items,
             row.status # "NONE", row.client \in Clients
      PROVE  Consistent' /\ LedgerAppendOnly /\ LossesAccountedFor
  <2>1. \A q \in Orders : order'[q] = IF q = o THEN row ELSE order[q]
    BY <1>1 DEF TypeOK
  <2>2. LedgerMatchesOwner' /\ OutboxMatchesLedger' /\ LedgerAppendOnly /\ LossesAccountedFor
    BY <1>1, SameOwnersKeep
  <2>3. PieceOwnedHasOwner' /\ TransferMatchesPiece'
    BY <1>0, <1>1 DEF PieceOwnedHasOwner, TransferMatchesPiece, IsActive
  <2>4. OrdersWellFormed'
    BY <1>1, <2>1 DEF OrdersWellFormed
  <2>5. PaidOrdersDelivered'
    <3> SUFFICES ASSUME NEW q \in Orders, order'[q].pay = "PAID"
                 PROVE  \A p \in order'[q].items :
                          \E i \in DOMAIN ledger'[p] : ledger'[p][i].client = order'[q].client
      BY DEF PaidOrdersDelivered
    <3>1. order[q].pay = "PAID" /\ order'[q].client = order[q].client
          /\ order'[q].items = order[q].items
      BY <1>1, <2>1
    <3> QED
      BY <2>2, <3>1, DeliveriesKeep DEF TypeOK
  <2> QED
    BY <2>2, <2>3, <2>4, <2>5
<1>2. ASSUME NEW c \in Clients, NEW S \in SUBSET Pieces, PlaceOrder(o, c, S)
      PROVE  Consistent' /\ LedgerAppendOnly /\ LossesAccountedFor
  <2> DEFINE row == [status |-> "PENDING", pay |-> "PENDING", client |-> c, items |-> S]
  <2>1. UNCHANGED <<piece, ledger, outbox>> /\ order' = [order EXCEPT ![o] = row]
    BY <1>2 DEF PlaceOrder
  <2>2. row.pay # "PAID" /\ row.status # "NONE" /\ row.client \in Clients
    OBVIOUS
  <2> HIDE DEF row
  <2> QED
    BY <1>1, <2>1, <2>2
<1>3. CASE CancelWrite(o)
  <2> DEFINE row == [order[o] EXCEPT !.status = "CANCELLED"]
  <2>1. UNCHANGED <<piece, ledger, outbox>> /\ order[o].client \in Clients
    BY <1>3 DEF CancelWrite, OrdersWellFormed
  <2>2. order' = [order EXCEPT ![o] = row]
    BY <1>3 DEF CancelWrite, TypeOK
  <2>3. /\ row.status = "CANCELLED"
        /\ row.pay = "PAID" => order[o].pay = "PAID"
        /\ row.client = order[o].client /\ row.items = order[o].items
    BY DEF TypeOK
  <2> HIDE DEF row
  <2> QED
    BY <1>1, <2>1, <2>2, <2>3
<1>4. CASE FailWrite(o)
  <2> DEFINE row == [order[o] EXCEPT !.status = "CANCELLED", !.pay = "FAILED"]
  <2>1. UNCHANGED <<piece, ledger, outbox>> /\ order[o].client \in Clients
    BY <1>4 DEF FailWrite, OrdersWellFormed
  <2>2. order' = [order EXCEPT ![o] = row]
    BY <1>4 DEF FailWrite, TypeOK
  <2>3. /\ row.status = "CANCELLED"
        /\ row.pay = "PAID" => order[o].pay = "PAID"
        /\ row.client = order[o].client /\ row.items = order[o].items
    BY DEF TypeOK
  <2> HIDE DEF row
  <2> QED
    BY <1>1, <2>1, <2>2, <2>3
<1>5. ASSUME NEW s \in OrderStatus, UpdateOrderStatus(o, s)
      PROVE  Consistent' /\ LedgerAppendOnly /\ LossesAccountedFor
  <2> DEFINE row == [order[o] EXCEPT !.status = s]
  <2>1. UNCHANGED <<piece, ledger, outbox>> /\ order[o].client \in Clients
    BY <1>5 DEF UpdateOrderStatus, OrdersWellFormed
  <2>2. order' = [order EXCEPT ![o] = row]
    BY <1>5 DEF UpdateOrderStatus, TypeOK
  <2>3. /\ row.status = s /\ row.pay = order[o].pay
        /\ row.client = order[o].client /\ row.items = order[o].items
    BY DEF TypeOK
  <2>4. s # "NONE"
    <3>1. order[o].status \in {"PENDING", "PAID", "PROCESSING", "FULFILLED", "CANCELLED"}
      BY <1>5 DEF UpdateOrderStatus, TypeOK, OrderStatus
    <3>2. s \in OrderTransitions[order[o].status]
      BY <1>5 DEF UpdateOrderStatus
    <3> QED
      BY <3>1, <3>2 DEF OrderTransitions
  <2> HIDE DEF row
  <2> QED
    BY <1>1, <2>1, <2>2, <2>3, <2>4
<1>6. CASE ConfirmOrder(o)
  <2> DEFINE S == {p \in order[o].items : piece[p].status = "AVAILABLE"}
             c == order[o].client
  <2>1. c \in Clients /\ order[o].items \in SUBSET Pieces
    BY <1>6 DEF ConfirmOrder, Confirmable, OrdersWellFormed, TypeOK
  <2>2. S \in SUBSET Pieces /\ Convey(S, c) /\ \A p \in S : piece[p].owner \notin Clients
    BY <1>6, <2>1 DEF ConfirmOrder, PieceOwnedHasOwner
  <2>3. \A p \in order[o].items \ S : OwnedBy(p, c)
    BY <1>6 DEF ConfirmOrder, Deliverable
  <2>4. \A q \in Orders : order'[q] = IF q = o THEN [order[o] EXCEPT !.status = "PAID", !.pay = "PAID"]
                                               ELSE order[q]
    BY <1>6 DEF ConfirmOrder, TypeOK
  <2>5. order'[o].client = c /\ order'[o].items = order[o].items /\ order'[o].status = "PAID"
    BY <2>4 DEF TypeOK
  <2> HIDE DEF S, c
  <2>6. /\ PieceOwnedHasOwner' /\ LedgerMatchesOwner' /\ TransferMatchesPiece'
        /\ OutboxMatchesLedger' /\ LedgerAppendOnly
    BY <1>0, <2>1, <2>2, ConveyKeeps
  <2>7. /\ \A p \in S : piece'[p] = [status |-> "OWNED", owner |-> c]
        /\ \A p \in Pieces \ S : piece'[p] = piece[p]
    BY <2>1, <2>2 DEF Convey
  <2>8. LossesAccountedFor
    BY <2>2, <2>7 DEF LossesAccountedFor
  <2>9. OrdersWellFormed'
    BY <2>1, <2>4, <2>5 DEF OrdersWellFormed
  <2>10. \A p \in order[o].items : \E i \in DOMAIN ledger'[p] : ledger'[p][i].client = c
    <3> TAKE p \in order[o].items
    <3>1. p \in Pieces /\ piece'[p].owner = c
      BY <2>1, <2>3, <2>7 DEF OwnedBy
    <3>2. /\ Len(ledger'[p]) \in Nat /\ DOMAIN ledger'[p] = 1..Len(ledger'[p])
          /\ Len(ledger'[p]) > 0
          /\ ledger'[p][Len(ledger'[p])].client = c
      <4>1. Len(ledger'[p]) \in Nat /\ DOMAIN ledger'[p] = 1..Len(ledger'[p])
        BY <3>1 DEF TypeOK
      <4>2. Len(ledger'[p]) > 0 /\ ledger'[p][Len(ledger'[p])].open
        BY <2>1, <2>6, <3>1 DEF LedgerMatchesOwner
      <4> QED
        BY <2>6, <3>1, <4>1, <4>2 DEF LedgerMatchesOwner
    <3> QED
      BY <3>2
  <2>11. PaidOrdersDelivered'
    <3> SUFFICES ASSUME NEW q \in Orders, order'[q].pay = "PAID"
                 PROVE  \A p \in order'[q].items :
                          \E i \in DOMAIN ledger'[p] : ledger'[p][i].client = order'[q].client
      BY DEF PaidOrdersDelivered
    <3>1. CASE q = o
      BY <2>5, <2>10, <3>1
    <3>2. CASE q # o
      BY <2>4, <2>6, <3>2, DeliveriesKeep DEF TypeOK
    <3> QED
      BY <3>1, <3>2
  <2> QED
    BY <2>6, <2>8, <2>9, <2>11
<1>7. CASE RefundOrder(o)
  <2> DEFINE S == Releasable(o)
             c == order[o].client
  <2>1. /\ order[o].pay = "PAID"
        /\ c \in Clients
        /\ order[o].items \in SUBSET Pieces
        /\ outbox' = outbox
        /\ order' = [order EXCEPT ![o].status = "CANCELLED", ![o].pay = "REFUNDED"]
    BY <1>7 DEF RefundOrder, OrdersWellFormed, TypeOK
  <2>2. S \in SUBSET Pieces /\ \A p \in S : piece[p] = [status |-> "OWNED", owner |-> c]
    BY <2>1 DEF Releasable, OwnedBy
  <2>3. \A p \in Pieces :
          /\ piece'[p] = IF p \in S THEN [status |-> "AVAILABLE", owner |-> NoClient] ELSE piece[p]
          /\ ledger'[p] = IF p \in S THEN Closed(ledger[p], c) ELSE ledger[p]
    BY <1>7 DEF RefundOrder
  <2>4. \A q \in Orders :
          order'[q] = IF q = o THEN [order[o] EXCEPT !.status = "CANCELLED", !.pay = "REFUNDED"]
                               ELSE order[q]
    BY <2>1 DEF TypeOK
  <2>5. \A p \in Pieces :
          /\ Len(ledger'[p]) = Len(ledger[p]) /\ Len(ledger[p]) \in Nat
          /\ DOMAIN ledger'[p] = 1..Len(ledger[p]) /\ DOMAIN ledger[p] = 1..Len(ledger[p])
          /\ \A i \in 1..Len(ledger[p]) :
               /\ ledger'[p][i].client = ledger[p][i].client
               /\ ledger'[p][i].open => ledger[p][i].open
               /\ p \in S /\ ledger'[p][i].open => ledger[p][i].client # c
    <3> TAKE p \in Pieces
    <3>1. ledger[p] \in Seq(OwnershipRecord)
      BY DEF TypeOK
    <3> QED
      BY <2>3, <3>1, ClosedFacts
  <2> HIDE DEF S
  <2>6. OrdersWellFormed'
    BY <2>1, <2>4 DEF OrdersWellFormed, TypeOK
  <2>7. PieceOwnedHasOwner'
    BY <2>3, NoClientAssumption DEF PieceOwnedHasOwner
  <2>8. LedgerMatchesOwner'
    <3> SUFFICES ASSUME NEW p \in Pieces
                 PROVE  /\ \A i \in DOMAIN ledger'[p] :
                             ledger'[p][i].open =>
                               /\ i = Len(ledger'[p])
                               /\ ledger'[p][i].client = piece'[p].owner
                        /\ piece'[p].owner \in Clients =>
                             Len(ledger'[p]) > 0 /\ ledger'[p][Len(ledger'[p])].open
      BY DEF LedgerMatchesOwner
    <3>1. CASE p \in S
      <4>1. \A i \in 1..Len(ledger[p]) : ledger[p][i].open => ledger[p][i].client = c
        BY <2>2, <2>5, <3>1 DEF LedgerMatchesOwner
      <4> QED
        BY <2>3, <2>5, <3>1, <4>1, NoClientAssumption
    <3>2. CASE p \notin S
      BY <2>3, <3>2 DEF LedgerMatchesOwner
    <3> QED
      BY <3>1, <3>2
  <2>9. TransferMatchesPiece'
    <3>1. \A t \in Transfers : IsActive(t) => transfer[t].piece \in Pieces \ S
      BY <2>2 DEF TransferMatchesPiece, TypeOK
    <3> QED
      BY <1>0, <2>3, <3>1 DEF TransferMatchesPiece, IsActive
  <2>10. OutboxMatchesLedger'
    BY <2>1, <2>5 DEF OutboxMatchesLedger
  <2>11. LedgerAppendOnly
    BY <2>5 DEF LedgerAppendOnly
  <2>12. LossesAccountedFor
    <3>1. order'[o].pay = "REFUNDED"
      BY <2>4 DEF TypeOK
    <3>2. \A p \in S : p \in order[o].items
      BY DEF S, Releasable
    <3> SUFFICES ASSUME NEW p \in Pieces, piece'[p].owner # piece[p].owner
                 PROVE  LossIsRefundOrApproval(p)
      BY DEF LossesAccountedFor
    <3>3. p \in S
      BY <2>3
    <3>4. /\ piece'[p] = [status |-> "AVAILABLE", owner |-> NoClient]
          /\ p \in order[o].items
          /\ order[o].client = piece[p].owner
      BY <2>2, <2>3, <3>2, <3>3
    <3> QED
      BY <2>1, <3>1, <3>4 DEF LossIsRefundOrApproval
  <2>13. PaidOrdersDelivered'
    <3> SUFFICES ASSUME NEW q \in Orders, order'[q].pay = "PAID"
                 PROVE  \A p \in order'[q].items :
                          \E i \in DOMAIN ledger'[p] : ledger'[p][i].client = order'[q].client
      BY DEF PaidOrdersDelivered
    <3>1. order'[q] = order[q]
      BY <2>4 DEF TypeOK
    <3> QED
      BY <2>11, <3>1, DeliveriesKeep DEF TypeOK
  <2> QED
    BY <2>6, <2>7, <2>8, <2>9, <2>10, <2>11, <2>12, <2>13
<1> QED
  BY <1>2, <1>3, <1>4, <1>5, <1>6, <1>7

LEMMA TransferStepKeeps ==
  IInv /\ TypeOK' /\ TransferStep => Consistent' /\ LedgerAppendOnly /\ LossesAccountedFor
<1> SUFFICES ASSUME IInv, TypeOK', NEW t \in Transfers,
                    \/ \E p \in Pieces, c, d \in Clients : InitiateTransfer(t, p, c, d)
                    \/ ConfirmSender(t)
                    \/ ConfirmRecipient(t)
                    \/ CancelTransfer(t)
                    \/ RejectTransfer(t)
                    \/ ApproveTransfer(t)
             PROVE  Consistent' /\ LedgerAppendOnly /\ LossesAccountedFor
  BY DEF TransferStep
<1> USE DEF IInv, Consistent
<1>0. order' = order
  BY DEF InitiateTransfer, ConfirmSender, ConfirmRecipient, CancelTransfer, RejectTransfer,
         ApproveTransfer
<1>1. ASSUME LedgerAppendOnly PROVE OrdersWellFormed' /\ PaidOrdersDelivered'
  <2>1. OrdersWellFormed'
    BY <1>0 DEF OrdersWellFormed
  <2>2. PaidOrdersDelivered'
    BY <1>0, <1>1, DeliveriesKeep DEF PaidOrdersDelivered, TypeOK
  <2> QED
    BY <2>1, <2>2
<1>2. ASSUME NEW p \in Pieces, NEW c \in Clients, NEW d \in Clients, InitiateTransfer(t, p, c, d)
      PROVE  Consistent' /\ LedgerAppendOnly /\ LossesAccountedFor
  <2> DEFINE row == [status |-> "INITIATED", piece |-> p, from |-> c, to |-> d]
  <2>1. /\ c # d /\ ~IsActive(t)
        /\ piece[p] = [status |-> "OWNED", owner |-> c]
        /\ \A u \in Transfers : IsActive(u) => transfer[u].piece # p
        /\ UNCHANGED <<ledger, outbox>>
        /\ piece' = [piece EXCEPT ![p].status = "TRANSFER_PENDING"]
        /\ transfer' = [transfer EXCEPT ![t] = row]
    BY <1>2 DEF InitiateTransfer, OwnedBy, SetStatus, IsActive
  <2>2. \A q \in Pieces : /\ piece'[q].owner = piece[q].owner
                          /\ q # p => piece'[q] = piece[q]
    BY <2>1 DEF TypeOK
  <2>3. piece'[p].status = "TRANSFER_PENDING" /\ piece'[p].owner = c
    BY <2>1, <2>2 DEF TypeOK
  <2>4. \A u \in Transfers : transfer'[u] = IF u = t THEN row ELSE transfer[u]
    BY <2>1 DEF TypeOK
  <2>5. LedgerMatchesOwner' /\ OutboxMatchesLedger' /\ LedgerAppendOnly /\ LossesAccountedFor
    BY <2>1, <2>2, SameOwnersKeep
  <2>6. PieceOwnedHasOwner'
    BY <2>2, <2>3 DEF PieceOwnedHasOwner
  <2>7. TransferMatchesPiece'
    <3>1. transfer'[t].piece = p /\ transfer'[t].from = c /\ transfer'[t].to = d /\ IsActive(t)'
      BY <2>4 DEF IsActive
    <3>2. \A u \in Transfers \ {t} : transfer'[u] = transfer[u] /\ (IsActive(u)' <=> IsActive(u))
      BY <2>4 DEF IsActive
    <3>3. \A q \in Pieces :
            piece'[q].status = "TRANSFER_PENDING"
              => \E u \in Transfers : transfer'[u].piece = q /\ IsActive(u)'
      <4> SUFFICES ASSUME NEW q \in Pieces, piece'[q].status = "TRANSFER_PENDING"
                   PROVE  \E u \in Transfers : transfer'[u].piece = q /\ IsActive(u)'
        OBVIOUS
      <4>1. CASE q = p
        BY <3>1, <4>1
      <4>2. CASE q # p
        <5>1. PICK u \in Transfers : transfer[u].piece = q /\ IsActive(u)
          BY <2>2, <4>2 DEF TransferMatchesPiece
        <5>2. u # t
          BY <2>1, <5>1
        <5> QED
          BY <3>2, <5>1, <5>2
      <4> QED
        BY <4>1, <4>2
    <3>4. ASSUME NEW u \in Transfers, IsActive(u)'
          PROVE  /\ piece'[transfer'[u].piece].status = "TRANSFER_PENDING"
                 /\ piece'[transfer'[u].piece].owner = transfer'[u].from
                 /\ transfer'[u].to \in Clients \ {transfer'[u].from}
                 /\ \A v \in Transfers : IsActive(v)' /\ transfer'[v].piece = transfer'[u].piece
                                          => v = u
      <4>1. CASE u = t
        BY <2>1, <2>3, <3>1, <3>2, <4>1
      <4>2. CASE u # t
        <5>1. IsActive(u) /\ transfer'[u] = transfer[u] /\ transfer[u].piece # p
          BY <2>1, <3>2, <3>4, <4>2
        <5>2. transfer[u].piece \in Pieces /\ piece'[transfer[u].piece] = piece[transfer[u].piece]
          BY <2>2, <5>1 DEF TypeOK
        <5> QED
          BY <3>1, <3>2, <4>2, <5>1, <5>2 DEF TransferMatchesPiece
      <4> QED
        BY <4>1, <4>2
    <3> QED
      BY <3>3, <3>4 DEF TransferMatchesPiece, IsActive
  <2> QED
    BY <1>1, <2>5, <2>6, <2>7
\* A confirmation moves the transfer along and nothing else.
<1>3. ASSUME NEW s \in {"SENDER_CONFIRMED", "DADAN_REVIEW"}, IsActive(t),
             transfer' = [transfer EXCEPT ![t].status = s],
             UNCHANGED <<piece, ledger, outbox>>
      PROVE  Consistent' /\ LedgerAppendOnly /\ LossesAccountedFor
  <2>1. \A u \in Transfers : /\ transfer'[u].piece = transfer[u].piece
                             /\ transfer'[u].from = transfer[u].from
                             /\ transfer'[u].to = transfer[u].to
                             /\ IsActive(u)' <=> IsActive(u)
    BY <1>3 DEF TypeOK, IsActive
  <2>2. LedgerMatchesOwner' /\ OutboxMatchesLedger' /\ LedgerAppendOnly /\ LossesAccountedFor
    BY <1>3, SameOwnersKeep
  <2>3. PieceOwnedHasOwner'
    BY <1>3 DEF PieceOwnedHasOwner
  <2>4. TransferMatchesPiece'
    BY <1>3, <2>1 DEF TransferMatchesPiece
  <2> QED
    BY <1>1, <2>2, <2>3, <2>4
\* A withdrawal ends the transfer and gives the piece back to its owner's shelf.
<1>4. ASSUME NEW s \in {"CANCELLED", "REJECTED"}, IsActive(t),
             SetStatus(transfer[t].piece, "OWNED"),
             transfer' = [transfer EXCEPT ![t].status = s],
             UNCHANGED <<ledger, outbox>>
      PROVE  Consistent' /\ LedgerAppendOnly /\ LossesAccountedFor
  <2> DEFINE p == transfer[t].piece
  <2>1. p \in Pieces /\ piece[p].status = "TRANSFER_PENDING" /\ piece[p].owner \in Clients
    BY <1>4 DEF TransferMatchesPiece, PieceOwnedHasOwner, TypeOK
  <2>2. /\ \A q \in Pieces : /\ piece'[q].owner = piece[q].owner
                             /\ q # p => piece'[q] = piece[q]
        /\ piece'[p].status = "OWNED"
    BY <1>4, <2>1 DEF SetStatus, TypeOK
  <2>3. /\ ~IsActive(t)'
        /\ \A u \in Transfers \ {t} : transfer'[u] = transfer[u] /\ (IsActive(u)' <=> IsActive(u))
    BY <1>4 DEF TypeOK, IsActive
  <2>4. \A u \in Transfers \ {t} : IsActive(u) => transfer[u].piece # p
    BY <1>4 DEF TransferMatchesPiece
  <2> HIDE DEF p
  <2>5. LedgerMatchesOwner' /\ OutboxMatchesLedger' /\ LedgerAppendOnly /\ LossesAccountedFor
    BY <1>4, <2>2, SameOwnersKeep
  <2>6. PieceOwnedHasOwner'
    BY <2>1, <2>2 DEF PieceOwnedHasOwner
  <2>7. TransferMatchesPiece'
    <3>1. \A q \in Pieces :
            piece'[q].status = "TRANSFER_PENDING"
              => \E u \in Transfers : transfer'[u].piece = q /\ IsActive(u)'
      <4> SUFFICES ASSUME NEW q \in Pieces, piece'[q].status = "TRANSFER_PENDING"
                   PROVE  \E u \in Transfers : transfer'[u].piece = q /\ IsActive(u)'
        OBVIOUS
      <4>1. q # p /\ piece[q].status = "TRANSFER_PENDING"
        BY <2>2
      <4>2. PICK u \in Transfers : transfer[u].piece = q /\ IsActive(u)
        BY <4>1 DEF TransferMatchesPiece
      <4>3. u # t
        BY <4>1, <4>2 DEF p
      <4> QED
        BY <2>3, <4>2, <4>3
    <3>2. ASSUME NEW u \in Transfers, IsActive(u)'
          PROVE  /\ piece'[transfer'[u].piece].status = "TRANSFER_PENDING"
                 /\ piece'[transfer'[u].piece].owner = transfer'[u].from
                 /\ transfer'[u].to \in Clients \ {transfer'[u].from}
                 /\ \A v \in Transfers : IsActive(v)' /\ transfer'[v].piece = transfer'[u].piece
                                          => v = u
      <4>1. u # t /\ IsActive(u) /\ transfer'[u] = transfer[u] /\ transfer[u].piece # p
        BY <2>3, <2>4, <3>2
      <4>2. transfer[u].piece \in Pieces /\ piece'[transfer[u].piece] = piece[transfer[u].piece]
        BY <2>2, <4>1 DEF TypeOK
      <4> QED
        BY <2>3, <4>1, <4>2 DEF TransferMatchesPiece
    <3> QED
      BY <3>1, <3>2 DEF TransferMatchesPiece
  <2> QED
    BY <1>1, <2>5, <2>6, <2>7
<1>5. CASE ApproveTransfer(t)
  <2> DEFINE p == transfer[t].piece
             c == transfer[t].from
             d == transfer[t].to
             record == [client |-> d, open |-> TRUE]
             closed == Closed(ledger[p], c)
  <2>1. /\ p \in Pieces /\ d \in Clients /\ c # d
        /\ piece[p].status = "TRANSFER_PENDING" /\ piece[p].owner = c
        /\ IsActive(t)
    BY <1>5 DEF ApproveTransfer, TransferMatchesPiece, IsActive, TypeOK
  <2>2. /\ transfer' = [transfer EXCEPT ![t].status = "APPROVED"]
        /\ piece' = [piece EXCEPT ![p] = [status |-> "OWNED", owner |-> d]]
        /\ ledger' = [ledger EXCEPT ![p] = Append(closed, record)]
        /\ outbox' = [outbox EXCEPT ![p] = Append(outbox[p], d)]
    BY <1>5 DEF ApproveTransfer
  <2>3. /\ piece'[p] = [status |-> "OWNED", owner |-> d]
        /\ ledger'[p] = Append(closed, record)
        /\ outbox'[p] = Append(outbox[p], d)
        /\ \A q \in Pieces \ {p} : piece'[q] = piece[q] /\ ledger'[q] = ledger[q]
                                  /\ outbox'[q] = outbox[q]
    BY <2>1, <2>2 DEF TypeOK
  <2>4. /\ ~IsActive(t)' /\ transfer'[t].status = "APPROVED"
        /\ \A u \in Transfers \ {t} : transfer'[u] = transfer[u] /\ (IsActive(u)' <=> IsActive(u))
    BY <2>2 DEF TypeOK, IsActive
  <2>5. \A u \in Transfers \ {t} : IsActive(u) => transfer[u].piece # p
    BY <2>1 DEF TransferMatchesPiece
  <2>6. /\ ledger[p] \in Seq(OwnershipRecord) /\ outbox[p] \in Seq(Clients)
        /\ record \in OwnershipRecord /\ record.client = d /\ record.open
    BY <2>1 DEF TypeOK, OwnershipRecord
  <2>7. /\ closed \in Seq(OwnershipRecord)
        /\ Len(closed) = Len(ledger[p]) /\ Len(ledger[p]) \in Nat
        /\ DOMAIN ledger[p] = 1..Len(ledger[p])
        /\ \A i \in 1..Len(ledger[p]) :
             /\ closed[i].client = ledger[p][i].client
             /\ closed[i].open => ledger[p][i].open
             /\ closed[i].open => ledger[p][i].client # c
    BY <2>6, ClosedFacts
  <2> HIDE DEF record, closed, p, c, d
  <2>8. /\ Len(ledger'[p]) = Len(ledger[p]) + 1
        /\ DOMAIN ledger'[p] = 1..(Len(ledger[p]) + 1)
        /\ \A i \in 1..Len(ledger[p]) : ledger'[p][i] = closed[i]
        /\ ledger'[p][Len(ledger[p]) + 1] = record
    <3>1. /\ Len(Append(closed, record)) = Len(closed) + 1
          /\ DOMAIN Append(closed, record) = 1..(Len(closed) + 1)
          /\ \A i \in 1..Len(closed) : Append(closed, record)[i] = closed[i]
          /\ Append(closed, record)[Len(closed) + 1] = record
      BY <2>6, <2>7, AppendFacts
    <3> QED
      BY <2>3, <2>7, <3>1
  <2>9. /\ Len(outbox'[p]) = Len(outbox[p]) + 1
        /\ \A i \in 1..Len(outbox[p]) : outbox'[p][i] = outbox[p][i]
        /\ outbox'[p][Len(outbox[p]) + 1] = d
    BY <2>3, <2>6, AppendFacts
  <2>10. \A i \in 1..Len(ledger[p]) : ledger[p][i].open => ledger[p][i].client = c
    BY <2>1, <2>7 DEF LedgerMatchesOwner
  <2>11. PieceOwnedHasOwner'
    BY <2>1, <2>3 DEF PieceOwnedHasOwner
  <2>12. LedgerMatchesOwner'
    <3> SUFFICES ASSUME NEW q \in Pieces
                 PROVE  /\ \A i \in DOMAIN ledger'[q] :
                             ledger'[q][i].open =>
                               /\ i = Len(ledger'[q])
                               /\ ledger'[q][i].client = piece'[q].owner
                        /\ piece'[q].owner \in Clients =>
                             Len(ledger'[q]) > 0 /\ ledger'[q][Len(ledger'[q])].open
      BY DEF LedgerMatchesOwner
    <3>1. CASE q = p
      <4>1. piece'[p].owner = d
        BY <2>3
      <4>2. ASSUME NEW i \in 1..(Len(ledger[p]) + 1), ledger'[p][i].open
            PROVE  i = Len(ledger[p]) + 1
        <5>1. ASSUME i \in 1..Len(ledger[p]) PROVE FALSE
          <6>1. closed[i].open
            BY <2>8, <4>2, <5>1
          <6> QED
            BY <2>7, <2>10, <5>1, <6>1
        <5> QED
          BY <2>7, <5>1
      <4> QED
        BY <2>6, <2>7, <2>8, <3>1, <4>1, <4>2
    <3>2. CASE q # p
      BY <2>3, <3>2 DEF LedgerMatchesOwner
    <3> QED
      BY <3>1, <3>2
  <2>13. TransferMatchesPiece'
    <3>1. \A q \in Pieces :
            piece'[q].status = "TRANSFER_PENDING"
              => \E u \in Transfers : transfer'[u].piece = q /\ IsActive(u)'
      <4> SUFFICES ASSUME NEW q \in Pieces, piece'[q].status = "TRANSFER_PENDING"
                   PROVE  \E u \in Transfers : transfer'[u].piece = q /\ IsActive(u)'
        OBVIOUS
      <4>1. q # p /\ piece[q].status = "TRANSFER_PENDING"
        BY <2>3
      <4>2. PICK u \in Transfers : transfer[u].piece = q /\ IsActive(u)
        BY <4>1 DEF TransferMatchesPiece
      <4>3. u # t
        BY <4>1, <4>2 DEF p
      <4> QED
        BY <2>4, <4>2, <4>3
    <3>2. ASSUME NEW u \in Transfers, IsActive(u)'
          PROVE  /\ piece'[transfer'[u].piece].status = "TRANSFER_PENDING"
                 /\ piece'[transfer'[u].piece].owner = transfer'[u].from
                 /\ transfer'[u].to \in Clients \ {transfer'[u].from}
                 /\ \A v \in Transfers : IsActive(v)' /\ transfer'[v].piece = transfer'[u].piece
                                          => v = u
      <4>1. u # t /\ IsActive(u) /\ transfer'[u] = transfer[u] /\ transfer[u].piece # p
        BY <2>4, <2>5, <3>2
      <4>2. transfer[u].piece \in Pieces /\ piece'[transfer[u].piece] = piece[transfer[u].piece]
        BY <2>3, <4>1 DEF TypeOK
      <4> QED
        BY <2>4, <4>1, <4>2 DEF TransferMatchesPiece
    <3> QED
      BY <3>1, <3>2 DEF TransferMatchesPiece
  <2>14. OutboxMatchesLedger'
    <3> SUFFICES ASSUME NEW q \in Pieces
                 PROVE  /\ Len(outbox'[q]) = Len(ledger'[q])
                        /\ \A i \in DOMAIN ledger'[q] : outbox'[q][i] = ledger'[q][i].client
      BY DEF OutboxMatchesLedger
    <3>1. CASE q = p
      <4>1. /\ Len(outbox[p]) = Len(ledger[p])
            /\ \A i \in 1..Len(ledger[p]) : outbox[p][i] = ledger[p][i].client
        BY <2>1, <2>7 DEF OutboxMatchesLedger
      <4>2. ASSUME NEW i \in 1..(Len(ledger[p]) + 1) PROVE outbox'[p][i] = ledger'[p][i].client
        <5>1. CASE i = Len(ledger[p]) + 1
          BY <2>6, <2>8, <2>9, <4>1, <5>1
        <5>2. CASE i \in 1..Len(ledger[p])
          BY <2>7, <2>8, <2>9, <4>1, <5>2
        <5> QED
          BY <2>7, <5>1, <5>2
      <4> QED
        BY <2>8, <2>9, <3>1, <4>1, <4>2
    <3>2. CASE q # p
      BY <2>3, <3>2 DEF OutboxMatchesLedger
    <3> QED
      BY <3>1, <3>2
  <2>15. LedgerAppendOnly
    <3> SUFFICES ASSUME NEW q \in Pieces
                 PROVE  /\ Len(ledger'[q]) >= Len(ledger[q])
                        /\ \A i \in DOMAIN ledger[q] :
                             /\ ledger'[q][i].client = ledger[q][i].client
                             /\ ledger'[q][i].open => ledger[q][i].open
      BY DEF LedgerAppendOnly
    <3>1. CASE q = p
      BY <2>7, <2>8, <3>1
    <3>2. CASE q # p
      <4>1. ledger[q] \in Seq(OwnershipRecord) /\ ledger'[q] = ledger[q]
        BY <2>3, <3>2 DEF TypeOK
      <4>2. Len(ledger[q]) \in Nat
        BY <4>1
      <4> QED
        BY <4>1, <4>2
    <3> QED
      BY <3>1, <3>2
  <2>16. LossesAccountedFor
    <3>1. LossIsRefundOrApproval(p)
      BY <1>5, <2>1, <2>3, <2>4 DEF LossIsRefundOrApproval, ApproveTransfer, p, c, d
    <3> QED
      BY <2>3, <3>1 DEF LossesAccountedFor
  <2> QED
    BY <1>1, <2>11, <2>12, <2>13, <2>14, <2>15, <2>16
<1> QED
  <2>1. ASSUME ConfirmSender(t) PROVE Consistent' /\ LedgerAppendOnly /\ LossesAccountedFor
    BY <1>3, <2>1 DEF ConfirmSender, IsActive
  <2>2. ASSUME ConfirmRecipient(t) PROVE Consistent' /\ LedgerAppendOnly /\ LossesAccountedFor
    BY <1>3, <2>2 DEF ConfirmRecipient, IsActive
  <2>3. ASSUME CancelTransfer(t) PROVE Consistent' /\ LedgerAppendOnly /\ LossesAccountedFor
    BY <1>4, <2>3 DEF CancelTransfer, IsActive
  <2>4. ASSUME RejectTransfer(t) PROVE Consistent' /\ LedgerAppendOnly /\ LossesAccountedFor
    BY <1>4, <2>4 DEF RejectTransfer, IsActive
  <2> QED
    BY <1>2, <1>5, <2>1, <2>2, <2>3, <2>4

-----------------------------------------------------------------------------
(* The theorems. *)

LEMMA InitInvariant == Init => IInv
<1> SUFFICES ASSUME Init PROVE IInv
  OBVIOUS
<1>1. TypeOK
  BY InitTypeOK
<1>2. OrdersWellFormed /\ PaidOrdersDelivered
  BY DEF Init, OrdersWellFormed, PaidOrdersDelivered
<1>3. PieceOwnedHasOwner /\ LedgerMatchesOwner /\ OutboxMatchesLedger
  BY NoClientAssumption DEF Init, PieceOwnedHasOwner, LedgerMatchesOwner, OutboxMatchesLedger
<1>4. TransferMatchesPiece
  BY DEF Init, TransferMatchesPiece, IsActive
<1> QED
  BY <1>1, <1>2, <1>3, <1>4 DEF IInv, Consistent

LEMMA NextInvariant == IInv /\ Next => IInv' /\ LedgerAppendOnly /\ LossesAccountedFor
<1> SUFFICES ASSUME IInv, Next PROVE IInv' /\ LedgerAppendOnly /\ LossesAccountedFor
  OBVIOUS
<1>1. TypeOK'
  BY HouseStepTypeOK, OrderStepTypeOK, TransferStepTypeOK DEF IInv, Consistent, Next
<1>2. Consistent' /\ LedgerAppendOnly /\ LossesAccountedFor
  BY <1>1, HouseStepKeeps, OrderStepKeeps, TransferStepKeeps DEF Next
<1> QED
  BY <1>1, <1>2 DEF IInv

LEMMA StutterInvariant == IInv /\ UNCHANGED ownershipVars => IInv'
BY DEF IInv, Consistent, ownershipVars, TypeOK, OrdersWellFormed, PieceOwnedHasOwner,
       LedgerMatchesOwner, TransferMatchesPiece, IsActive, OutboxMatchesLedger, PaidOrdersDelivered

\* The inductive invariant holds of every behaviour of the API's transactions.
THEOREM Invariance == Spec => []IInv
BY InitInvariant, NextInvariant, StutterInvariant, PTL DEF Spec

\* Every row the transactions leave is well typed.
THEOREM TypeCorrect == Spec => []TypeOK
BY Invariance, PTL DEF IInv

\* The transactions keep the CHECK constraint piece_owned_has_owner.
THEOREM OwnersConsistent == Spec => []PieceOwnedHasOwner
BY Invariance, PTL DEF IInv, Consistent

\* The last ownership record is open exactly when the piece row has an owner,
\* and names that owner.
THEOREM LedgerCorrect == Spec => []LedgerMatchesOwner
BY Invariance, PTL DEF IInv, Consistent

\* A piece in transfer has one active transfer, from its owner.
THEOREM TransfersCorrect == Spec => []TransferMatchesPiece
BY Invariance, PTL DEF IInv, Consistent

\* Every change of owner asked for exactly one certificate.
THEOREM OutboxCorrect == Spec => []OutboxMatchesLedger
BY Invariance, PTL DEF IInv, Consistent

\* A paid order has delivered each of its pieces.
THEOREM PaidDelivered == Spec => []PaidOrdersDelivered
BY Invariance, PTL DEF IInv, Consistent

\* No step removes, rewrites or reopens an ownership record.
THEOREM AppendOnlyHistory == Spec => HistoryIsAppendOnly
<1>1. IInv /\ [Next]_ownershipVars => [LedgerAppendOnly]_ownershipVars
  BY NextInvariant
<1> QED
  BY <1>1, Invariance, PTL DEF Spec, HistoryIsAppendOnly

\* No step takes a piece from a client but a refund of their own order or an
\* approved transfer of theirs.
THEOREM OwnersProtected == Spec => OwnerLosesOnlyByRefundOrApproval
<1>1. IInv /\ [Next]_ownershipVars => [LossesAccountedFor]_ownershipVars
  BY NextInvariant
<1> QED
  BY <1>1, Invariance, PTL DEF Spec, OwnerLosesOnlyByRefundOrApproval

================================================================================
