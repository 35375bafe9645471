CONSTANTS
  Clients = {ana, bo}
  Pieces = {ring}
  Orders = {o1, o2}
  Transfers = {}
  NoClient = NoClient
  Threads = {t1, t2}
  NoOrder = NoOrder
  NoHold = NoHold
  MaxReserves = 2
SPECIFICATION ServiceSpec
SYMMETRY Symmetry
INVARIANTS
  PaidOncePerPiece
CHECK_DEADLOCK FALSE
