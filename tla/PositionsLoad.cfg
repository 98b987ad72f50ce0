CONSTANTS
  Requests = {r1, r2}
  Quantities = {1, 2}
  Prices = {100}
  Cycle = "T2"
  Faults = {}
  Pricing = FALSE
  MaxFills = 2
  MaxConnects = 1
SPECIFICATION Spec
SYMMETRY Symmetry
CHECK_DEADLOCK FALSE
INVARIANT LoadedEngineAgrees
