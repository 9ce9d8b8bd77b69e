SPECIFICATION FairSpec
CONSTANTS
  g1 = g1
  g2 = g2
  products = products
  topic = topic
  Gateways = {g1, g2}
  Keys = {products}
  Targets = {topic}
  NoTarget = NoTarget
  Absent = Absent
  NoSnapshot = NoSnapshot
  Bodies <- MCBodies
  Defaults <- MCDefaults
  Retries = 2
  MaxChanges = 2
  MaxFailures = 2
  MaxCrashes = 1
INVARIANTS
  TypeOK
  RouterTracksTable
PROPERTIES
  NothingGoesBack
  StartEnds
  EventGetsServed
CHECK_DEADLOCK FALSE
