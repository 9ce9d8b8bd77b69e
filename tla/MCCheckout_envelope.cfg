CONSTANTS
  Checkout = {1}
  User = {u1}
  Product = {p1, p2}
  Catalog = {p1}
  u1 = u1
  p1 = p1
  p2 = p2
  Buyer <- MCBuyer
  StrictEnvelope = TRUE
  Reachable = FALSE
  MaxOrders = 3
  MaxRequests = 4
  MaxOrderFaults <- NoOrderFault
  MaxSessions = 1
  MaxPolls = 1
  MaxPayFaults = 0
  MaxWebFaults = 0
  MaxFaults = 0
SPECIFICATION FairSpec
PROPERTIES
  PostCreatesOrder
CHECK_DEADLOCK FALSE
