SPECIFICATION FairSpec
CONSTANTS
  Topics <- MCTopics
  MaxRecords = 3
  MaxConcurrency = 2
  MaxEnds = 1
  MaxFaults = 1
INVARIANTS
  TypeOK
  SkipsBounded
  ProducerUsable
PROPERTIES
  ImplementsRpc
  RequestAnswered
CHECK_DEADLOCK FALSE
