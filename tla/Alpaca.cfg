CONSTANTS
  NoRequest = NoRequest
  Aggregating = FALSE
  Connects = {c1, c2}
  Disconnects = {d1}
  Orders = {o1}
  Lots <- MCLots
  AlpacaId <- MCAlpacaId
SPECIFICATION Spec
CHECK_DEADLOCK FALSE
INVARIANTS TypeOK AtMostOneLateFill NoCrashInOrder KeyVerifiedInOrder
PROPERTIES FillsFollowStream DisconnectReturns
