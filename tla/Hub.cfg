CONSTANTS
  dash = dash
  orders = orders
  Clients = {dash, orders}
  Stream <- MCStream
  Instruments = {"i1", "i2"}
  Notifiers = {fills, pricer}
  SendCap = 1
  MaxUpdates = 2
SPECIFICATION Spec
CHECK_DEADLOCK FALSE
INVARIANTS TypeOK NoSendOnClosed LastUpdateShown
PROPERTIES PendingIsSent GoneClientsLeave
