CONSTANTS
  o1 = o1
  v1 = v1
  NoVenue = NoVenue
  NoFill = NoFill
  Venues = {v1}
  Orders = {o1}
  Quantities = {2}
  Cancelers = {}
  RiskPool = 1
  ChanSize = 1
  FeedSize = 1
  FailOpen = FALSE
  Faults = {}
  Lossy = {}
  InProcess = {}
  Pricers = {}
  MaxRestarts = 0
SPECIFICATION Spec
INVARIANTS RejectedNeverAtVenue
