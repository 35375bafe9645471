------------------------------ MODULE Ownership ------------------------------
(***************************************************************************)
(* Who owns each piece.  The rows of Piece, OwnershipRecord, Transfer-     *)
(* Request, Order, Certificate and CertificateOutbox that decide it, and   *)
(* every transaction of the API that writes them: registering, assigning,  *)
(* selling, refunding and transferring a piece, and issuing certificates.  *)
(*                                                                         *)
(* Each action is one committed transaction.  The code runs them           *)
(* SERIALIZABLE (runSerializable) or under a FOR UPDATE lock on the one    *)
(* piece row they touch, so a transaction that commits saw the state it    *)
(* commits to.  Writes the code makes outside such a transaction, after a  *)
(* check made earlier, carry no guard here but what the database enforces  *)
(* (UpdatePiece, CancelWrite, FailWrite); the module Checkout splits those *)
(* handlers at their awaits.                                               *)
(*                                                                         *)
(* A definition commented as a mutant is a faulty variant of the one that  *)
(* follows it.  No specification uses it: the model checker is run with it *)
(* in that definition's place, to see that the properties notice.          *)
(***************************************************************************)
EXTENDS Naturals, Sequences

CONSTANTS Clients,    \* members of the house
          Pieces,     \* ids of the one-of-a-kind pieces
          Orders,     \* order ids
          Transfers,  \* transfer request ids
          NoClient    \* the SQL NULL of Piece.currentOwnerId

ASSUME NoClientAssumption == NoClient \notin Clients

ASSUME PiecesAssumption == Pieces # {}

VARIABLES piece,        \* Piece: status and currentOwnerId
          ledger,       \* OwnershipRecord: per piece, oldest first
          order,        \* Order: status, paymentStatus, buyer and items
          transfer,     \* TransferRequest
          certificate,  \* ownerId of the piece's active Certificate
          outbox        \* CertificateOutbox: per piece, the clients to certify

ownershipVars == <<piece, ledger, order, transfer, certificate, outbox>>

-----------------------------------------------------------------------------
(* The tables. *)

PieceStatus == {"ABSENT", "AVAILABLE", "OWNED", "TRANSFER_PENDING", "RETIRED"}

OrderStatus == {"NONE", "PENDING", "PAID", "PROCESSING", "FULFILLED", "CANCELLED"}

PaymentStatus == {"PENDING", "PAID", "FAILED", "REFUNDED"}

TransferStatus ==
  {"NONE", "INITIATED", "SENDER_CONFIRMED", "DADAN_REVIEW",
   "APPROVED", "REJECTED", "CANCELLED"}

OwnershipRecord == [client : Clients, open : BOOLEAN]

Owner == Clients \cup {NoClient}

TypeOK ==
  /\ piece \in [Pieces -> [status : PieceStatus, owner : Owner]]
  /\ ledger \in [Pieces -> Seq(OwnershipRecord)]
  /\ order \in [Orders -> [status : OrderStatus, pay : PaymentStatus,
                           client : Owner, items : SUBSET Pieces]]
  /\ transfer \in [Transfers -> [status : TransferStatus, piece : Pieces,
                                 from : Owner, to : Owner]]
  /\ certificate \in [Pieces -> Owner]
  /\ outbox \in [Pieces -> Seq(Clients)]

-----------------------------------------------------------------------------
(* What the transactions share. *)

\* Mutant: the promise of a certificate is left to a call after the commit.
ConveyWithoutOutbox(S, c) ==
  /\ piece' = [p \in Pieces |->
                 IF p \in S THEN [status |-> "OWNED", owner |-> c] ELSE piece[p]]
  /\ ledger' = [p \in Pieces |->
                  IF p \in S THEN Append(ledger[p], [client |-> c, open |-> TRUE])
                             ELSE ledger[p]]
  /\ UNCHANGED outbox

\* Conveying pieces to a client: the piece rows, one open ownership record
\* each, and the promise of a certificate, all in the caller's transaction.
Convey(S, c) ==
  /\ piece' = [p \in Pieces |->
                 IF p \in S THEN [status |-> "OWNED", owner |-> c] ELSE piece[p]]
  /\ ledger' = [p \in Pieces |->
                  IF p \in S THEN Append(ledger[p], [client |-> c, open |-> TRUE])
                             ELSE ledger[p]]
  /\ outbox' = [p \in Pieces |->
                  IF p \in S THEN Append(outbox[p], c) ELSE outbox[p]]

\* Mutants: the closing update is forgotten, or deletes the record.
LeftOpen(records, c) == records
Deleted(records, c) == SelectSeq(records, LAMBDA r : r.client # c)

\* updateMany where the record is the client's and still open.
Closed(records, c) ==
  [i \in DOMAIN records |->
     IF records[i].client = c THEN [records[i] EXCEPT !.open = FALSE] ELSE records[i]]

SetStatus(p, s) == piece' = [piece EXCEPT ![p].status = s]

IsActive(t) == transfer[t].status \in {"INITIATED", "SENDER_CONFIRMED", "DADAN_REVIEW"}

-----------------------------------------------------------------------------
(* The house: registering and assigning pieces. *)

\* Mutant: the ownership record is written whether or not there is a client.
RegisterPieceRecording(p, c) ==
  /\ piece[p].status = "ABSENT"
  /\ Convey({p}, c)
  /\ UNCHANGED <<order, transfer, certificate>>

\* registerPiece; c = NoClient when no initial client is named.
RegisterPiece(p, c) ==
  /\ piece[p].status = "ABSENT"
  /\ \/ /\ c \in Clients
        /\ Convey({p}, c)
     \/ /\ c = NoClient
        /\ SetStatus(p, "AVAILABLE")
        /\ UNCHANGED <<ledger, outbox>>
  /\ UNCHANGED <<order, transfer, certificate>>

\* Mutant: the CHECK constraint is dropped, and an update decided on a piece
\* that was then available reaches one that has been sold.
UpdatePieceUnchecked(p, s) ==
  /\ piece[p].status # "ABSENT"
  /\ s \in {"AVAILABLE", "RETIRED"}
  /\ SetStatus(p, s)
  /\ UNCHANGED <<ledger, order, transfer, certificate, outbox>>

\* The update of updatePiece, which retires a piece or brings it back.  The
\* transition was checked on an earlier read; when the update runs, only the
\* CHECK constraint piece_owned_has_owner stands between it and a sold piece.
UpdatePiece(p, s) ==
  /\ piece[p].status # "ABSENT"
  /\ s \in {"AVAILABLE", "RETIRED"}
  /\ piece[p].owner = NoClient
  /\ SetStatus(p, s)
  /\ UNCHANGED <<ledger, order, transfer, certificate, outbox>>

\* Mutant: the status read before the row lock is trusted.
AssignPieceUnlocked(p, c) ==
  /\ piece[p].status # "ABSENT"
  /\ Convey({p}, c)
  /\ UNCHANGED <<order, transfer, certificate>>

\* assignPiece looks at the status only: a hold or a pending order on the
\* piece does not stop it.
AssignPiece(p, c) ==
  /\ piece[p].status = "AVAILABLE"
  /\ Convey({p}, c)
  /\ UNCHANGED <<order, transfer, certificate>>

-----------------------------------------------------------------------------
(* Orders. *)

\* The transaction of createPendingOrder.  Its checkout-hold and price checks
\* belong to Checkout; here any available pieces can be ordered.
PlaceOrder(o, c, S) ==
  /\ order[o].status = "NONE"
  /\ S # {}
  /\ \A p \in S : piece[p].status = "AVAILABLE"
  /\ order' = [order EXCEPT ![o] = [status |-> "PENDING", pay |-> "PENDING",
                                    client |-> c, items |-> S]]
  /\ UNCHANGED <<piece, ledger, transfer, certificate, outbox>>

OwnedBy(p, c) == piece[p] = [status |-> "OWNED", owner |-> c]

\* Mutant: a piece that is owned is taken for the buyer's.
DeliverableIfOwned(o) ==
  \A p \in order[o].items : piece[p].status \in {"AVAILABLE", "OWNED"}

\* confirmOrderPayment accepts a piece its buyer already owns, so that a
\* second confirmation of the same sale is harmless.
Deliverable(o) ==
  \A p \in order[o].items : piece[p].status = "AVAILABLE" \/ OwnedBy(p, order[o].client)

Confirmable(o) ==
  order[o].status \notin {"NONE", "CANCELLED"} /\ order[o].pay # "PAID"

ConfirmOrder(o) ==
  /\ Confirmable(o)
  /\ Deliverable(o)
  /\ Convey({p \in order[o].items : piece[p].status = "AVAILABLE"}, order[o].client)
  /\ order' = [order EXCEPT ![o].status = "PAID", ![o].pay = "PAID"]
  /\ UNCHANGED <<transfer, certificate>>

\* The update of cancelOrder, whose check was made before an await.
CancelWrite(o) ==
  /\ order[o].status # "NONE"
  /\ order' = [order EXCEPT ![o].status = "CANCELLED"]
  /\ UNCHANGED <<piece, ledger, transfer, certificate, outbox>>

\* The update of failOrderPayment, likewise.
FailWrite(o) ==
  /\ order[o].status # "NONE"
  /\ order' = [order EXCEPT ![o].status = "CANCELLED", ![o].pay = "FAILED"]
  /\ UNCHANGED <<piece, ledger, transfer, certificate, outbox>>

OrderTransitions ==
  [PENDING |-> {"PAID", "CANCELLED"}, PAID |-> {"PROCESSING"},
   PROCESSING |-> {"FULFILLED"}, FULFILLED |-> {}, CANCELLED |-> {}]

\* Mutant: marking an order PAID marks its payment too.
UpdateOrderStatusAndPay(o, s) ==
  /\ order[o].status # "NONE"
  /\ s \in OrderTransitions[order[o].status]
  /\ order' = [order EXCEPT ![o].status = s, ![o].pay = IF s = "PAID" THEN "PAID" ELSE @]
  /\ UNCHANGED <<piece, ledger, transfer, certificate, outbox>>

\* updateOrderStatus writes the status and nothing else.
UpdateOrderStatus(o, s) ==
  /\ order[o].status # "NONE"
  /\ s \in OrderTransitions[order[o].status]
  /\ order' = [order EXCEPT ![o].status = s]
  /\ UNCHANGED <<piece, ledger, transfer, certificate, outbox>>

\* Mutant: a piece in transfer is taken back too.
ReleasableInTransfer(o) == {p \in order[o].items : piece[p].owner = order[o].client}

\* Mutant: any owned piece of the order is taken back, whoever owns it.
ReleasableUnowned(o) == {p \in order[o].items : piece[p].status = "OWNED"}

\* The pieces a refund takes back: those the buyer still owns outright.
Releasable(o) == {p \in order[o].items : OwnedBy(p, order[o].client)}

RefundOrder(o) ==
  LET S == Releasable(o) IN
  /\ order[o].pay = "PAID"
  /\ piece' = [p \in Pieces |->
                 IF p \in S THEN [status |-> "AVAILABLE", owner |-> NoClient] ELSE piece[p]]
  /\ ledger' = [p \in Pieces |->
                  IF p \in S THEN Closed(ledger[p], order[o].client) ELSE ledger[p]]
  /\ certificate' = [p \in Pieces |-> IF p \in S THEN NoClient ELSE certificate[p]]
  /\ order' = [order EXCEPT ![o].status = "CANCELLED", ![o].pay = "REFUNDED"]
  /\ UNCHANGED <<transfer, outbox>>

-----------------------------------------------------------------------------
(* Transfers between members. *)

InitiateTransfer(t, p, c, d) ==
  /\ transfer[t].status = "NONE"
  /\ c # d
  /\ OwnedBy(p, c)
  /\ ~\E u \in Transfers : transfer[u].piece = p /\ IsActive(u)
  /\ SetStatus(p, "TRANSFER_PENDING")
  /\ transfer' = [transfer EXCEPT ![t] = [status |-> "INITIATED", piece |-> p,
                                          from |-> c, to |-> d]]
  /\ UNCHANGED <<ledger, order, certificate, outbox>>

ConfirmSender(t) ==
  /\ transfer[t].status = "INITIATED"
  /\ transfer' = [transfer EXCEPT ![t].status = "SENDER_CONFIRMED"]
  /\ UNCHANGED <<piece, ledger, order, certificate, outbox>>

\* RECIPIENT_CONFIRMED is asserted on the way and never stored.
ConfirmRecipient(t) ==
  /\ transfer[t].status = "SENDER_CONFIRMED"
  /\ transfer' = [transfer EXCEPT ![t].status = "DADAN_REVIEW"]
  /\ UNCHANGED <<piece, ledger, order, certificate, outbox>>

\* The piece goes back to OWNED without its own status being looked at.
CancelTransfer(t) ==
  /\ transfer[t].status \in {"INITIATED", "SENDER_CONFIRMED"}
  /\ SetStatus(transfer[t].piece, "OWNED")
  /\ transfer' = [transfer EXCEPT ![t].status = "CANCELLED"]
  /\ UNCHANGED <<ledger, order, certificate, outbox>>

RejectTransfer(t) ==
  /\ transfer[t].status = "DADAN_REVIEW"
  /\ SetStatus(transfer[t].piece, "OWNED")
  /\ transfer' = [transfer EXCEPT ![t].status = "REJECTED"]
  /\ UNCHANGED <<ledger, order, certificate, outbox>>

ApproveTransfer(t) ==
  LET p == transfer[t].piece
      c == transfer[t].from
      d == transfer[t].to
  IN
  /\ transfer[t].status = "DADAN_REVIEW"
  /\ piece[p].owner = c
  /\ transfer' = [transfer EXCEPT ![t].status = "APPROVED"]
  /\ piece' = [piece EXCEPT ![p] = [status |-> "OWNED", owner |-> d]]
  /\ ledger' = [ledger EXCEPT ![p] = Append(Closed(@, c), [client |-> d, open |-> TRUE])]
  /\ certificate' = [certificate EXCEPT ![p] = NoClient]
  /\ outbox' = [outbox EXCEPT ![p] = Append(@, d)]
  /\ UNCHANGED order

-----------------------------------------------------------------------------
(* Certificates. *)

\* A generation job commits.  The outbox row that asked for it may have been
\* dispatched, retried or dispatched again at any later time, and the job
\* certifies the client the row names, without looking at the present owner.
IssueCertificate(p, i) ==
  /\ certificate' = [certificate EXCEPT ![p] = outbox[p][i]]
  /\ UNCHANGED <<piece, ledger, order, transfer, outbox>>

-----------------------------------------------------------------------------
(* The specification. *)

Init ==
  /\ piece = [p \in Pieces |-> [status |-> "ABSENT", owner |-> NoClient]]
  /\ ledger = [p \in Pieces |-> <<>>]
  /\ order = [o \in Orders |-> [status |-> "NONE", pay |-> "PENDING",
                                client |-> NoClient, items |-> {}]]
  /\ transfer = [t \in Transfers |-> [status |-> "NONE", piece |-> CHOOSE p \in Pieces : TRUE,
                                      from |-> NoClient, to |-> NoClient]]
  /\ certificate = [p \in Pieces |-> NoClient]
  /\ outbox = [p \in Pieces |-> <<>>]

HouseStep ==
  \E p \in Pieces :
    \/ \E c \in Owner : RegisterPiece(p, c)
    \/ \E s \in PieceStatus : UpdatePiece(p, s)
    \/ \E c \in Clients : AssignPiece(p, c)

OrderStep ==
  \E o \in Orders :
    \/ \E c \in Clients, S \in SUBSET Pieces : PlaceOrder(o, c, S)
    \/ ConfirmOrder(o)
    \/ CancelWrite(o)
    \/ FailWrite(o)
    \/ \E s \in OrderStatus : UpdateOrderStatus(o, s)
    \/ RefundOrder(o)

TransferStep ==
  \E t \in Transfers :
    \/ \E p \in Pieces, c, d \in Clients : InitiateTransfer(t, p, c, d)
    \/ ConfirmSender(t)
    \/ ConfirmRecipient(t)
    \/ CancelTransfer(t)
    \/ RejectTransfer(t)
    \/ ApproveTransfer(t)

CertificateStep == \E p \in Pieces : \E i \in DOMAIN outbox[p] : IssueCertificate(p, i)

Next == HouseStep \/ OrderStep \/ TransferStep \/ CertificateStep

Spec == Init /\ [][Next]_ownershipVars

-----------------------------------------------------------------------------
(* Properties. *)

\* The CHECK constraint piece_owned_has_owner of the schema, which the
\* transactions keep by themselves: a piece has an owner exactly when it is
\* owned or in transfer.
PieceOwnedHasOwner ==
  \A p \in Pieces :
    (piece[p].owner \in Clients) <=> (piece[p].status \in {"OWNED", "TRANSFER_PENDING"})

\* The ownership history agrees with the piece row: a record is open only if
\* it is the latest, and it is then the present owner's; an owned piece has
\* one.  The partial unique index one_current_owner_per_piece follows.
LedgerMatchesOwner ==
  \A p \in Pieces :
    /\ \A i \in DOMAIN ledger[p] :
         ledger[p][i].open =>
           /\ i = Len(ledger[p])
           /\ ledger[p][i].client = piece[p].owner
    /\ piece[p].owner \in Clients =>
         Len(ledger[p]) > 0 /\ ledger[p][Len(ledger[p])].open

\* A piece is TRANSFER_PENDING exactly while one transfer of it is active, and
\* the sender of an active transfer is still the owner: approve never meets
\* "Ownership has changed since transfer was initiated", and cancel and reject
\* may put OWNED back without looking.
TransferMatchesPiece ==
  /\ \A p \in Pieces :
       piece[p].status = "TRANSFER_PENDING"
         => \E t \in Transfers : transfer[t].piece = p /\ IsActive(t)
  /\ \A t \in Transfers :
       IsActive(t) =>
         /\ piece[transfer[t].piece].status = "TRANSFER_PENDING"
         /\ piece[transfer[t].piece].owner = transfer[t].from
         /\ transfer[t].to \in Clients \ {transfer[t].from}
         /\ \A u \in Transfers :
              IsActive(u) /\ transfer[u].piece = transfer[t].piece => u = t

\* Every change of ownership recorded exactly one certificate request, for the
\* client it made owner, in the same transaction: none is lost or duplicated.
OutboxMatchesLedger ==
  \A p \in Pieces :
    /\ Len(outbox[p]) = Len(ledger[p])
    /\ \A i \in DOMAIN ledger[p] : outbox[p][i] = ledger[p][i].client

\* An order that reads PAID has delivered: its buyer is in the history of
\* every one of its pieces, whatever happened to the pieces since.
PaidOrdersDelivered ==
  \A o \in Orders : order[o].pay = "PAID" =>
    \A p \in order[o].items : \E i \in DOMAIN ledger[p] : ledger[p][i].client = order[o].client

\* Ownership leaves a client in two ways only: back to the house, by a refund
\* of an order of theirs for that piece, or to the recipient of a transfer
\* that the sender initiated and the house was reviewing.
LossIsRefundOrApproval(p) ==
  \/ /\ piece'[p] = [status |-> "AVAILABLE", owner |-> NoClient]
     /\ \E o \in Orders : /\ p \in order[o].items
                          /\ order[o].client = piece[p].owner
                          /\ order[o].pay = "PAID"
                          /\ order'[o].pay = "REFUNDED"
  \/ \E t \in Transfers : /\ transfer[t].piece = p
                          /\ transfer[t].from = piece[p].owner
                          /\ transfer[t].to = piece'[p].owner
                          /\ transfer[t].status = "DADAN_REVIEW"
                          /\ transfer'[t].status = "APPROVED"

LossesAccountedFor ==
  \A p \in Pieces :
    piece[p].owner \in Clients /\ piece'[p].owner # piece[p].owner
      => LossIsRefundOrApproval(p)

OwnerLosesOnlyByRefundOrApproval == [][LossesAccountedFor]_ownershipVars

\* The history is append-only: a record is never removed or rewritten, and a
\* closed one is never reopened.
LedgerAppendOnly ==
  \A p \in Pieces :
    /\ Len(ledger'[p]) >= Len(ledger[p])
    /\ \A i \in DOMAIN ledger[p] :
         /\ ledger'[p][i].client = ledger[p][i].client
         /\ ledger'[p][i].open => ledger[p][i].open

HistoryIsAppendOnly == [][LedgerAppendOnly]_ownershipVars

\* What the schema and TransfersService.approve say of certificates: the
\* active one attests the present owner.
CertificateAttestsOwner ==
  \A p \in Pieces : certificate[p] \in Clients => certificate[p] = piece[p].owner

=============================================================================
