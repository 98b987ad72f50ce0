CONSTANTS
  o1 = o1
  o2 = o2
  v1 = v1
  v2 = v2
  NoVenue = NoVenue
  NoFill = NoFill
  Venues = {v1, v2}
  Orders = {o1, o2}
  Quantities = {2}
  Cancelers = {}
  RiskPool = 1
  ChanSize = 1
  FeedSize = 1
  FailOpen = TRUE
  Faults = {}
  Lossy = {}
  InProcess = {v1}
  Pricers = {}
  MaxRestarts = 0
SPECIFICATION LiveSpec
INVARIANTS BooksAgreeWhenIdle
PROPERTIES AcceptedOrdersDecided ReportedFillsBooked
