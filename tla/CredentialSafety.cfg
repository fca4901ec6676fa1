SPECIFICATION Spec
CONSTANTS
  Client = {a}
  Realm = {r1, r2}
  ClientId = {i1}
  Public = Public
  Nothing = Nothing
  MaxLives = 2
  MaxGen = 2
  MaxValue = 2
  MaxCrashes = 1
INVARIANTS
  TypeOK
  TenantIsolation

  
CHECK_DEADLOCK FALSE
