CONSTANTS
  Clients = {ana, bo}
  Pieces = {ring}
  Orders = {o1, o2}
  Transfers = {}
  NoClient = NoClient
  Threads = {t1}
  NoOrder = NoOrder
  NoHold = NoHold
  MaxReserves = 2
SPECIFICATION FairServiceSpec
PROPERTIES
  PendingCapturesSettle
CHECK_DEADLOCK FALSE
