CONSTANTS
  Refunds = {f1}
  Charges = {c1}
  Passes = {p1, p2}
  Recorders = {k1}
  MaxAttempts = 3
  NoCharge = NoCharge
  NoRefund = NoRefund
SPECIFICATION FairRefundSpec
INVARIANTS
  RefundTypeOK
  HandedOverSpent
  CallsWithinAttempts
  RefundsAccountedFor
  HandedOverUnpaid
PROPERTIES
  RowsClose
  RefundsFollowSale
