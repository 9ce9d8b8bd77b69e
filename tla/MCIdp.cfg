SPECIFICATION Spec
CONSTANTS
  alice = alice
  bob = bob
  carol = carol
  dave = dave
  Nobody = Nobody
  Name = {alice, bob, carol, dave}
  Seed <- MCSeed
  WithMfa = {carol}
  Scripts <- MCScripts
  Fresh <- MCFresh
  MaxCalls = 4
  AccessLife = 2
  RefreshLife = 3
  MfaLife = 1
  ResetLife = 1
  MaxTime = 3
  MaxFaults = 1
  MaxEvictions = 1
INVARIANTS
  TypeOK
  HandedOutIsKept
  AccountsOwned
PROPERTIES
  SpentRefused
  AccountGetsProfile
CHECK_DEADLOCK FALSE
