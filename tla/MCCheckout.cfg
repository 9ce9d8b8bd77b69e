CONSTANTS
  Checkout = {1}
  User = {u1}
  Product = {p1, p2}
  Catalog = {p1}
  u1 = u1
  p1 = p1
  p2 = p2
  Buyer <- MCBuyer
  StrictEnvelope = FALSE
  Reachable = TRUE
  MaxOrders = 3
  MaxRequests = 4
  MaxOrderFaults <- OneOrderFault
  MaxSessions = 2
  MaxPolls = 1
  MaxPayFaults = 1
  MaxWebFaults = 1
  MaxFaults = 1
SPECIFICATION FairSpec
INVARIANTS
  TypeOK
  SettledAsStripeSays
  PageTruthful
  PaidNotRejected
PROPERTIES
  PaymentShown
CHECK_DEADLOCK FALSE
