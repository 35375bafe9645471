----------------------------- MODULE CustodyProofs -----------------------------
(***************************************************************************)
(* Ownership implements Custody, for every set of clients, pieces, orders  *)
(* and transfers.  The invariant of OwnershipProofs carries the argument:  *)
(* the ledger names the owner, so what a refund or a transfer takes from   *)
(* the owner on the row is taken from the holder of the title.             *)
(***************************************************************************)
EXTENDS OwnershipProofs

CustodyTitle == [p \in Pieces |-> TitleOf(ledger[p])]
CustodyHeld == {p \in Pieces : piece[p].owner \in Clients}

\* The title of a record sequence: one client per record, in the same order.
LEMMA TitleFacts ==
  ASSUME NEW records \in Seq(OwnershipRecord)
  PROVE  /\ TitleOf(records) \in Seq(Clients)
         /\ Len(TitleOf(records)) = Len(records)
         /\ Len(records) \in Nat
         /\ DOMAIN records = 1..Len(records)
         /\ \A i \in 1..Len(records) : TitleOf(records)[i] = records[i].client
<1>1. Len(records) \in Nat /\ DOMAIN records = 1..Len(records)
      /\ \A i \in 1..Len(records) : records[i] \in OwnershipRecord
  OBVIOUS
<1>2. \A i \in 1..Len(records) : records[i].client \in Clients
  BY <1>1 DEF OwnershipRecord
<1>3. \A i \in 1..Len(records) : TitleOf(records)[i] = records[i].client
  BY DEF TitleOf
<1>4. TitleOf(records) \in [1..Len(records) -> Clients]
  BY <1>2 DEF TitleOf
<1> QED
  BY <1>1, <1>3, <1>4

\* Adding a record adds its client to the title.
LEMMA TitleAppend ==
  ASSUME NEW records \in Seq(OwnershipRecord), NEW c \in Clients
  PROVE  TitleOf(Append(records, [client |-> c, open |-> TRUE])) = Append(TitleOf(records), c)
<1> DEFINE r == [client |-> c, open |-> TRUE]
           longer == Append(records, r)
<1>1. r \in OwnershipRecord /\ r.client = c
  BY DEF OwnershipRecord
<1> HIDE DEF r
<1>2. /\ longer \in Seq(OwnershipRecord)
      /\ Len(longer) = Len(records) + 1
      /\ \A i \in 1..Len(records) : longer[i] = records[i]
      /\ longer[Len(records) + 1] = r
  BY <1>1, AppendFacts
<1> HIDE DEF longer
<1>3. /\ TitleOf(records) \in Seq(Clients)
      /\ Len(TitleOf(records)) = Len(records)
      /\ Len(records) \in Nat
      /\ \A i \in 1..Len(records) : TitleOf(records)[i] = records[i].client
  BY TitleFacts
<1>4. /\ Len(Append(TitleOf(records), c)) = Len(records) + 1
      /\ DOMAIN Append(TitleOf(records), c) = 1..(Len(records) + 1)
      /\ \A i \in 1..Len(records) : Append(TitleOf(records), c)[i] = records[i].client
      /\ Append(TitleOf(records), c)[Len(records) + 1] = c
      /\ Append(TitleOf(records), c) \in Seq(Clients)
  BY <1>3, AppendFacts
<1>5. /\ TitleOf(longer) \in Seq(Clients)
      /\ Len(TitleOf(longer)) = Len(records) + 1
      /\ \A i \in 1..(Len(records) + 1) : TitleOf(longer)[i] = longer[i].client
  BY <1>2, TitleFacts
<1>6. ASSUME NEW i \in 1..(Len(records) + 1)
      PROVE  TitleOf(longer)[i] = Append(TitleOf(records), c)[i]
  <2>1. CASE i = Len(records) + 1
    BY <1>1, <1>2, <1>4, <1>5, <2>1
  <2>2. CASE i \in 1..Len(records)
    BY <1>2, <1>4, <1>5, <2>2
  <2> QED
    BY <1>3, <2>1, <2>2
<1>7. TitleOf(longer) = Append(TitleOf(records), c)
  BY <1>3, <1>4, <1>5, <1>6
<1> QED
  BY <1>7 DEF longer, r

\* Closing records leaves the title alone.
LEMMA TitleClosed ==
  ASSUME NEW records \in Seq(OwnershipRecord), NEW c
  PROVE  TitleOf(Closed(records, c)) = TitleOf(records)
<1>1. /\ Len(Closed(records, c)) = Len(records)
      /\ DOMAIN records = 1..Len(records)
      /\ \A i \in DOMAIN records : Closed(records, c)[i].client = records[i].client
  BY ClosedFacts
<1> QED
  BY <1>1 DEF TitleOf

\* In a consistent state the holder of the title of an owned piece is its owner.
LEMMA HolderIsOwner ==
  ASSUME IInv, NEW p \in Pieces, piece[p].owner \in Clients
  PROVE  CustodyTitle[p][Len(CustodyTitle[p])] = piece[p].owner
<1>1. ledger[p] \in Seq(OwnershipRecord)
  BY DEF IInv, TypeOK
<1>2. Len(ledger[p]) > 0 /\ ledger[p][Len(ledger[p])].open
  BY DEF IInv, Consistent, LedgerMatchesOwner
<1>3. Len(ledger[p]) \in 1..Len(ledger[p]) /\ DOMAIN ledger[p] = 1..Len(ledger[p])
  BY <1>1, <1>2
<1>4. ledger[p][Len(ledger[p])].client = piece[p].owner
  BY <1>2, <1>3 DEF IInv, Consistent, LedgerMatchesOwner
<1> QED
  BY <1>1, <1>3, <1>4, TitleFacts DEF CustodyTitle

\* A conveyance of free pieces is a grant.
LEMMA ConveyIsGrant ==
  ASSUME IInv, NEW S \in SUBSET Pieces, NEW c \in Clients, Convey(S, c),
         \A p \in S : piece[p].owner \notin Clients
  PROVE  Promise!Next
<1>1. \A p \in Pieces : ledger[p] \in Seq(OwnershipRecord)
  BY DEF IInv, TypeOK
<1>2. /\ \A p \in S : /\ piece'[p] = [status |-> "OWNED", owner |-> c]
                      /\ ledger'[p] = Append(ledger[p], [client |-> c, open |-> TRUE])
      /\ \A p \in Pieces \ S : piece'[p] = piece[p] /\ ledger'[p] = ledger[p]
  BY DEF Convey
<1>3. CustodyTitle' = [p \in Pieces |-> IF p \in S THEN Append(CustodyTitle[p], c)
                                                 ELSE CustodyTitle[p]]
  <2>1. \A p \in S : TitleOf(ledger'[p]) = Append(TitleOf(ledger[p]), c)
    BY <1>1, <1>2, TitleAppend
  <2> QED
    BY <1>2, <2>1 DEF CustodyTitle
<1>4. CustodyHeld' = CustodyHeld \cup S
  BY <1>2 DEF CustodyHeld
<1>5. S \cap CustodyHeld = {}
  BY DEF CustodyHeld
<1> QED
  BY <1>3, <1>4, <1>5 DEF Promise!Next, Promise!Grant, CustodyTitle, CustodyHeld

\* A step that leaves the owners and the ledger alone is a stutter.
LEMMA SameOwnersStutter ==
  ASSUME \A p \in Pieces : piece'[p].owner = piece[p].owner, ledger' = ledger
  PROVE  UNCHANGED Promise!custodyVars
BY DEF Promise!custodyVars

LEMMA HouseStepRefines ==
  IInv /\ (HouseStep \/ CertificateStep) => Promise!Next \/ UNCHANGED Promise!custodyVars
<1> SUFFICES ASSUME IInv, NEW p \in Pieces,
                    \/ \E c \in Owner : RegisterPiece(p, c)
                    \/ \E s \in PieceStatus : UpdatePiece(p, s)
                    \/ \E c \in Clients : AssignPiece(p, c)
                    \/ \E i \in DOMAIN outbox[p] : IssueCertificate(p, i)
             PROVE  Promise!Next \/ UNCHANGED Promise!custodyVars
  BY DEF HouseStep, CertificateStep
<1>1. ASSUME NEW c \in Clients, Convey({p}, c), piece[p].status \in {"ABSENT", "AVAILABLE"}
      PROVE  Promise!Next
  <2>1. piece[p].owner \notin Clients
    BY <1>1 DEF IInv, Consistent, PieceOwnedHasOwner
  <2> QED
    BY <1>1, <2>1, ConveyIsGrant
<1>2. ASSUME NEW s, SetStatus(p, s), UNCHANGED ledger
      PROVE  UNCHANGED Promise!custodyVars
  <2>1. \A q \in Pieces : piece'[q].owner = piece[q].owner
    BY <1>2 DEF SetStatus, IInv, TypeOK
  <2> QED
    BY <1>2, <2>1, SameOwnersStutter
<1>3. ASSUME NEW c \in Owner, RegisterPiece(p, c)
      PROVE  Promise!Next \/ UNCHANGED Promise!custodyVars
  BY <1>1, <1>2, <1>3 DEF RegisterPiece
<1>4. ASSUME NEW s \in PieceStatus, UpdatePiece(p, s) PROVE UNCHANGED Promise!custodyVars
  BY <1>2, <1>4 DEF UpdatePiece
<1>5. ASSUME NEW c \in Clients, AssignPiece(p, c) PROVE Promise!Next
  BY <1>1, <1>5 DEF AssignPiece
<1>6. ASSUME NEW i \in DOMAIN outbox[p], IssueCertificate(p, i)
      PROVE  UNCHANGED Promise!custodyVars
  BY <1>6, SameOwnersStutter DEF IssueCertificate
<1> QED
  BY <1>3, <1>4, <1>5, <1>6

LEMMA OrderStepRefines ==
  IInv /\ OrderStep => Promise!Next \/ UNCHANGED Promise!custodyVars
<1> SUFFICES ASSUME IInv, NEW o \in Orders,
                    \/ \E c \in Clients, S \in SUBSET Pieces : PlaceOrder(o, c, S)
                    \/ ConfirmOrder(o)
                    \/ CancelWrite(o)
                    \/ FailWrite(o)
                    \/ \E s \in OrderStatus : UpdateOrderStatus(o, s)
                    \/ RefundOrder(o)
             PROVE  Promise!Next \/ UNCHANGED Promise!custodyVars
  BY DEF OrderStep
<1> DEFINE c == order[o].client
<1>1. CASE UNCHANGED <<piece, ledger>>
  BY <1>1, SameOwnersStutter
<1>2. CASE ConfirmOrder(o)
  <2> DEFINE S == {p \in order[o].items : piece[p].status = "AVAILABLE"}
  <2>1. S \in SUBSET Pieces /\ c \in Clients /\ Convey(S, c)
    BY <1>2 DEF ConfirmOrder, Confirmable, IInv, Consistent, OrdersWellFormed, TypeOK
  <2>2. \A p \in S : piece[p].owner \notin Clients
    BY <2>1 DEF IInv, Consistent, PieceOwnedHasOwner
  <2> QED
    BY <2>1, <2>2, ConveyIsGrant
<1>3. CASE RefundOrder(o)
  <2> DEFINE S == Releasable(o)
  <2>1. order[o].pay = "PAID" /\ order[o].items \in SUBSET Pieces /\ c \in Clients
    BY <1>3 DEF RefundOrder, IInv, Consistent, OrdersWellFormed, TypeOK
  <2>2. S \in SUBSET Pieces /\ \A p \in S : piece[p].owner = c
    BY <2>1 DEF Releasable, OwnedBy
  <2>3. \A p \in Pieces :
          /\ piece'[p] = IF p \in S THEN [status |-> "AVAILABLE", owner |-> NoClient] ELSE piece[p]
          /\ ledger'[p] = IF p \in S THEN Closed(ledger[p], c) ELSE ledger[p]
    BY <1>3 DEF RefundOrder
  <2> HIDE DEF S
  <2>4. CustodyTitle' = CustodyTitle
    <3>1. \A p \in Pieces : TitleOf(ledger'[p]) = TitleOf(ledger[p])
      BY <2>3, TitleClosed DEF IInv, TypeOK
    <3> QED
      BY <3>1 DEF CustodyTitle
  <2>5. CustodyHeld' = CustodyHeld \ S
    BY <2>3, NoClientAssumption DEF CustodyHeld
  <2>6. \A p \in S : p \in CustodyHeld /\ CustodyTitle[p][Len(CustodyTitle[p])] = c
    BY <2>1, <2>2, HolderIsOwner DEF CustodyHeld
  <2> HIDE DEF c
  <2>7. PICK T \in SUBSET Pieces, k \in Clients : T = S /\ k = c
    BY <2>1, <2>2
  <2>8. Promise!Return(T, k)
    BY <2>2, <2>4, <2>5, <2>6, <2>7
       DEF Promise!Return, Promise!Holder, CustodyTitle, CustodyHeld
  <2> QED
    BY <2>8 DEF Promise!Next
<1> QED
  BY <1>1, <1>2, <1>3 DEF PlaceOrder, CancelWrite, FailWrite, UpdateOrderStatus

LEMMA TransferStepRefines ==
  IInv /\ TransferStep => Promise!Next \/ UNCHANGED Promise!custodyVars
<1> SUFFICES ASSUME IInv, NEW t \in Transfers,
                    \/ \E p \in Pieces, c, d \in Clients : InitiateTransfer(t, p, c, d)
                    \/ ConfirmSender(t)
                    \/ ConfirmRecipient(t)
                    \/ CancelTransfer(t)
                    \/ RejectTransfer(t)
                    \/ ApproveTransfer(t)
             PROVE  Promise!Next \/ UNCHANGED Promise!custodyVars
  BY DEF TransferStep
<1>1. ASSUME NEW p, NEW s, SetStatus(p, s), UNCHANGED ledger
      PROVE  UNCHANGED Promise!custodyVars
  <2>1. \A q \in Pieces : piece'[q].owner = piece[q].owner
    BY <1>1 DEF SetStatus, IInv, TypeOK
  <2> QED
    BY <1>1, <2>1, SameOwnersStutter
<1>2. CASE ApproveTransfer(t)
  <2> DEFINE p == transfer[t].piece
             c == transfer[t].from
             d == transfer[t].to
  <2>1. p \in Pieces /\ d \in Clients /\ c # d /\ piece[p].owner = c /\ c \in Clients
    BY <1>2 DEF ApproveTransfer, IInv, Consistent, TransferMatchesPiece, PieceOwnedHasOwner,
                IsActive, TypeOK
  <2>2. /\ ledger[p] \in Seq(OwnershipRecord)
        /\ piece'[p].owner = d
        /\ ledger'[p] = Append(Closed(ledger[p], c), [client |-> d, open |-> TRUE])
        /\ \A q \in Pieces \ {p} : piece'[q] = piece[q] /\ ledger'[q] = ledger[q]
    BY <1>2, <2>1 DEF ApproveTransfer, IInv, TypeOK
  <2> HIDE DEF p, c, d
  <2>3. TitleOf(ledger'[p]) = Append(TitleOf(ledger[p]), d)
    <3>1. Closed(ledger[p], c) \in Seq(OwnershipRecord)
      BY <2>2, ClosedFacts
    <3>2. TitleOf(ledger'[p]) = Append(TitleOf(Closed(ledger[p], c)), d)
      BY <2>1, <2>2, <3>1, TitleAppend
    <3> QED
      BY <2>2, <3>2, TitleClosed
  <2>4. CustodyTitle' = [CustodyTitle EXCEPT ![p] = Append(CustodyTitle[p], d)]
    BY <2>1, <2>2, <2>3 DEF CustodyTitle
  <2>5. CustodyHeld' = CustodyHeld
    BY <2>1, <2>2 DEF CustodyHeld
  <2>6. p \in CustodyHeld /\ CustodyTitle[p][Len(CustodyTitle[p])] = c
    BY <2>1, HolderIsOwner DEF CustodyHeld
  <2>7. Promise!Pass(p, d)
    BY <2>1, <2>4, <2>5, <2>6 DEF Promise!Pass, Promise!Holder, CustodyTitle, CustodyHeld
  <2> QED
    BY <2>1, <2>7 DEF Promise!Next
<1>3. CASE UNCHANGED <<piece, ledger>>
  BY <1>3, SameOwnersStutter
<1> QED
  BY <1>1, <1>2, <1>3
     DEF InitiateTransfer, ConfirmSender, ConfirmRecipient, CancelTransfer, RejectTransfer

\* The API implements the abstract custody of pieces: clients get pieces from
\* the house, return them to it, or pass them to one another, and nothing else
\* ever happens to a piece or to its title.
THEOREM OwnershipImplementsCustody == Spec => ImplementsCustody
<1>1. Init => Promise!Init
  <2>1. TitleOf(<<>>) = <<>>
    BY DEF TitleOf
  <2>2. ASSUME Init PROVE CustodyTitle = [p \in Pieces |-> <<>>]
    BY <2>1, <2>2 DEF Init, CustodyTitle
  <2>3. ASSUME Init PROVE CustodyHeld = {}
    BY <2>3, NoClientAssumption DEF Init, CustodyHeld
  <2> QED
    BY <2>2, <2>3 DEF Promise!Init, CustodyTitle, CustodyHeld
<1>2. IInv /\ [Next]_ownershipVars => [Promise!Next]_Promise!custodyVars
  <2>1. IInv /\ Next => Promise!Next \/ UNCHANGED Promise!custodyVars
    BY HouseStepRefines, OrderStepRefines, TransferStepRefines DEF Next
  <2>2. UNCHANGED ownershipVars => UNCHANGED Promise!custodyVars
    BY SameOwnersStutter DEF ownershipVars
  <2> QED
    BY <2>1, <2>2
<1> QED
  BY <1>1, <1>2, Invariance, PTL DEF Spec, ImplementsCustody, Promise!Spec

================================================================================
