CONSTANTS
  Clients = {ana, bo, cy}
  Pieces = {ring, box}
  Orders = {o1}
  Transfers = {t1, t2}
  NoClient = NoClient
SPECIFICATION Spec
SYMMETRY Symmetry
INVARIANTS
  TypeOK
  PieceOwnedHasOwner
  LedgerMatchesOwner
  TransferMatchesPiece
  OutboxMatchesLedger
  PaidOrdersDelivered
PROPERTIES
  OwnerLosesOnlyByRefundOrApproval
  HistoryIsAppendOnly
  ImplementsCustody
