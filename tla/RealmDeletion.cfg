SPECIFICATION FairKeptSpec
CONSTANTS
  Child = {c1}
  Confidential = {c1}
  Job = {j1, j2}
  NoJob = NoJob
  Lagging = {"children"}
  ListOrder = {o1}
  BackoffLimit = 0
  MaxGen = 1
  MaxDrifts = 0
  MaxCrashes = 0
  MaxFailures = 0
PROPERTIES
  CalmDeletionPurges
  
  KeycloakConverges
CHECK_DEADLOCK FALSE
