CONSTANTS
  NoRequest = NoRequest
  Aggregating = FALSE
  Connects = {c1}
  Disconnects = {}
  Orders = {o1}
  Lots <- MCLots
  AlpacaId <- MCAlpacaId
SPECIFICATION Spec
CHECK_DEADLOCK FALSE
INVARIANT FillsNameOrders
