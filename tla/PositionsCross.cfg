CONSTANTS
  Requests = {r1, r2, r3}
  Quantities = {1, 2}
  Prices = {100, 300}
  Cycle = "T2"
  Faults = {}
  Pricing = FALSE
  MaxFills = 4
  MaxConnects = 0
SPECIFICATION Spec
SYMMETRY Symmetry
CHECK_DEADLOCK FALSE
PROPERTY CrossingStartsAnew
