CONSTANTS
  User = {u1}
  Product = {p1}
  Session = {s1}
  NoSession = NoSession
  u1 = u1
  p1 = p1
  s1 = s1
  MessageId <- MCMessageId
  Messages <- CheckoutMessages
  StrictEnvelope = FALSE
  MaxRequests = 2
  MaxFaults <- CrashFault
SPECIFICATION FairSpec
PROPERTIES
  EverySettlementAnnounced
CHECK_DEADLOCK FALSE
