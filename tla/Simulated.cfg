CONSTANTS
  buy = buy
  other = other
  NoRequest = NoRequest
  Aggregating = FALSE
  Connects = {c1, c2}
  Disconnects = {d1}
  Orders = {buy, other}
  Type <- MCType
  Side <- MCSide
  Limit <- MCLimit
  Prices = {1, 2}
  FillCap = 1
SPECIFICATION Spec
CHECK_DEADLOCK FALSE
INVARIANTS TypeOK LimitOrdersConserved FrozenOnlyIfOvertaken
PROPERTIES CrossedOrderFills
