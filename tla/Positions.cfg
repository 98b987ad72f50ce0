CONSTANTS
  Requests = {r1, r2}
  Quantities = {1, 2}
  Prices = {100, 300}
  Cycle = "T2"
  Faults = {"CreateFill", "UpdateOrder", "GetPosition", "UpsertPosition", "Publish"}
  Pricing = TRUE
  MaxFills = 3
  MaxConnects = 2
SPECIFICATION Spec
SYMMETRY Symmetry
CHECK_DEADLOCK FALSE
INVARIANTS PnlConserved ShortOnlyAfterRace EngineAgrees
