SPECIFICATION FairOverlapSpec
CONSTANTS
  Child = {}
  Confidential = {}
  Job = {j1, j2}
  NoJob = NoJob
  Lagging = {}
  ListOrder = {o1}
  BackoffLimit = 0
  MaxGen = 1
  MaxDrifts = 0
  MaxCrashes = 1
  MaxFailures = 0
INVARIANTS
  PodsFindSecret
  ReadyMeansImported

  
  
  
CHECK_DEADLOCK FALSE
