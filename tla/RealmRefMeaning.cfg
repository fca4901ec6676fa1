SPECIFICATION FairSpec
CONSTANTS
  Client = {a}
  Realm = {r1, r2}
  ClientId = {i1}
  Public = Public
  Nothing = Nothing
  MaxLives = 1
  MaxGen = 1
  MaxValue = 1
  MaxCrashes = 0
PROPERTIES
  RefNamesRealmCR
CHECK_DEADLOCK FALSE
