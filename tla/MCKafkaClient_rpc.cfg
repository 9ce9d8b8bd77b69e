CONSTANTS
  Request = {r1, r2}
  Instance = {i1, i2}
  NoInstance = NoInstance
  MaxAnswers = 2
  MaxFaults = 2
SPECIFICATION FairSpec
INVARIANTS
  TypeOK
  PendingIffWaiting
PROPERTIES
  ImplementsRpc
  EveryCallSettles
CHECK_DEADLOCK FALSE
