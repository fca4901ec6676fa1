SPECIFICATION FairSpec
CONSTANTS
  Client = {a, b}
  Realm = {r1}
  ClientId = {i1}
  Public = Public
  Nothing = Nothing
  MaxLives = 1
  MaxGen = 2
  MaxValue = 2
  MaxCrashes = 0
PROPERTIES
  
  
  StatusSettles
CHECK_DEADLOCK FALSE
