CONSTANTS
  o1 = o1
  v1 = v1
  o2 = o2
  NoVenue = NoVenue
  NoFill = NoFill
  Venues = {v1}
  Orders = {o1, o2}
  Quantities = {2}
  Cancelers = {}
  RiskPool = 1
  ChanSize = 1
  FeedSize = 1
  FailOpen = FALSE
  Faults = {"UpdateOrder", "CreateFill", "GetPosition", "UpsertPosition"}
  Lossy = {v1}
  InProcess = {}
  Pricers = {v1}
  MaxRestarts = 1
SPECIFICATION Spec
INVARIANTS NoPhantomFills RejectedNeverBooked TrackedFillsApply
PROPERTIES RowsFollowLifecycle
SYMMETRY Symmetry
