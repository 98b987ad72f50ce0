CONSTANTS
  o1 = o1
  v1 = v1
  NoVenue = NoVenue
  NoFill = NoFill
  Venues = {v1}
  Orders = {o1}
  Quantities = {0, 3}
  Cancelers = {o1}
  RiskPool = 1
  ChanSize = 1
  FeedSize = 3
  FailOpen = FALSE
  Faults = {"CreateOrder", "UpdateOrder", "CreateFill", "GetPosition", "UpsertPosition", "Publish"}
  Lossy = {v1}
  InProcess = {}
  Pricers = {v1}
  MaxRestarts = 2
SPECIFICATION Spec
INVARIANTS TypeOK OrdersWellFormed NoPhantomFills VenueOrdersOnRecord RejectedNeverBooked TrackedFillsApply TerminalEventIsLast
PROPERTIES RowsFollowLifecycle
