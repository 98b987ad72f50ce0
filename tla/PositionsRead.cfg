CONSTANTS
  Requests = {r1, r2}
  Quantities = {1, 2}
  Prices = {100, 300}
  Cycle = "T2"
  Faults = {"GetPosition"}
  Pricing = FALSE
  MaxFills = 3
  MaxConnects = 0
SPECIFICATION Spec
SYMMETRY Symmetry
CHECK_DEADLOCK FALSE
PROPERTY RowKeepsFills
