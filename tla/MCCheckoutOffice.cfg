CONSTANTS
  Clients = {ana, bo}
  Pieces = {ring}
  Orders = {o1}
  Transfers = {}
  NoClient = NoClient
  Threads = {t1, t2}
  NoOrder = NoOrder
  NoHold = NoHold
  MaxReserves = 1
SPECIFICATION FairHouseSpec
INVARIANTS
  MoneyMatchesOrders
  ProcessedCapturesLand
PROPERTIES
  PendingOrdersEnd
CHECK_DEADLOCK FALSE
