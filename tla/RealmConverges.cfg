SPECIFICATION SlowJobsSpec
CONSTANTS
  Child = {}
  Confidential = {}
  Job = {j1, j2}
  NoJob = NoJob
  Lagging = {"secret"}
  ListOrder = {o1}
  BackoffLimit = 0
  MaxGen = 2
  MaxDrifts = 1
  MaxCrashes = 0
  MaxFailures = 1
PROPERTIES
  KeycloakConverges
  OwedJobIsSpawned
CHECK_DEADLOCK FALSE
