CONSTANTS
  Request = {r1}
  Instance = {i1, i2}
  NoInstance = NoInstance
  MaxAnswers = 1
  MaxFaults = 0
SPECIFICATION Spec
INVARIANTS
  HandledMeansSettled
CHECK_DEADLOCK FALSE
