CONSTANTS
  o1 = o1
  o2 = o2
  NoRequest = NoRequest
  Aggregating = TRUE
  Connects = {c1}
  Disconnects = {d1}
  Cancelers = {o2}
  Resting = {o2}
  Orders = {o1, o2}
  Number <- MCNumber
  Symbol <- MCSymbol
  Lots <- MCLots
  FillCap = 1
SPECIFICATION Spec
CHECK_DEADLOCK FALSE
PROPERTY OnlyItsOrderCanceled
