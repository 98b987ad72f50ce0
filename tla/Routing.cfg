CONSTANTS
  Venues = {"v1", "v2", "v3"}
  Quotes <- MCQuotes
  OrderSizes = {1, 2, 3}
  LotSizes = {1, 2}
  Depths = {0, 1, 2, 4}
  Scale = 8
SPECIFICATION RouterSpec
CHECK_DEADLOCK FALSE
INVARIANTS DecisionsSound SplitConserves
