CONSTANTS
  alice = alice
  bob = bob
  User = {alice, bob}
  Shop = {s1, s2}
  s2 = s2
  Admin = {a1}
  NoTab = NoTab
  Role <- MCRole
  WithMfa = {alice}
  MaxSessions = 2
  MaxClicks = 4
  MaxInFlight = 2
  MaxFaults = 1
SPECIFICATION MCSpec
INVARIANTS
  TypeOK
  ShownIsOwn
  SessionsEnd
PROPERTIES
  SignOutCompletes
CHECK_DEADLOCK FALSE
