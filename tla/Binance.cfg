CONSTANTS
  o1 = o1
  o2 = o2
  NoRequest = NoRequest
  Aggregating = TRUE
  Connects = {c1, c2}
  Disconnects = {d1, d2}
  Cancelers = {o2}
  Resting = {o2}
  Orders = {o1, o2}
  Number <- MCNumber
  Symbol <- MCSymbol
  Lots <- MCLots
  FillCap = 1
SPECIFICATION Spec
SYMMETRY Symmetry
CHECK_DEADLOCK FALSE
INVARIANTS TypeOK AtMostOnceInOrder NoPanicInOrder QuietWhenDisconnected
PROPERTIES FillsFollowStream
