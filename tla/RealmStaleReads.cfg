SPECIFICATION FairKeptSpec
CONSTANTS
  Child = {}
  Confidential = {}
  Job = {j1, j2}
  NoJob = NoJob
  Lagging = {"secret", "jobs"}
  ListOrder = {o1}
  BackoffLimit = 1
  MaxGen = 1
  MaxDrifts = 0
  MaxCrashes = 1
  MaxFailures = 2
PROPERTIES
  RunningJobSpared
  KeycloakConverges
  
CHECK_DEADLOCK FALSE
