CONSTANTS
  Clients = {ana, bo}
  Pieces = {ring}
  Orders = {o1}
  Transfers = {}
  NoClient = NoClient
  Threads = {t1, t2}
  NoOrder = NoOrder
  NoHold = NoHold
  MaxReserves = 2
SPECIFICATION CheckoutSpec
SYMMETRY Symmetry
PROPERTIES
  SettledStaysSettled
CHECK_DEADLOCK FALSE
