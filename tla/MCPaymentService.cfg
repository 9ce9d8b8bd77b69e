CONSTANTS
  Order = {o1}
  o1 = o1
  RequestId = {"s", "x"}
  Requests <- MCRequests
  MaxRequests = 2
  MaxSessions = 1
  MaxPolls = 3
  MaxFaults = 2
SPECIFICATION FairSpec
INVARIANTS
  TypeOK
  UpdatesTruthful
  PollingBounded
  HandedOutIsWatched
PROPERTIES
  PaymentReported
CHECK_DEADLOCK FALSE
