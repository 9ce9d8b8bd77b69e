CONSTANTS
  User = {u1}
  Product = {p1}
  Session = {s1}
  NoSession = NoSession
  u1 = u1
  p1 = p1
  s1 = s1
  MessageId <- MCMessageId
  Messages <- MCMessages
  StrictEnvelope = TRUE
  MaxRequests = 3
  MaxFaults <- AllFaults
SPECIFICATION MCSpec
INVARIANTS
  TypeOK
  RepliesTruthful
  CommittedAnswered
  OrdersPerDelivery
PROPERTIES
  ImplementsLifecycle
  EveryRequestAnswered
  OnlyFaultsLoseEvents
CHECK_DEADLOCK FALSE
