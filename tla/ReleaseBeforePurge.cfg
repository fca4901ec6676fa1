SPECIFICATION Spec
CONSTANTS
  Child = {c1}
  Confidential = {}
  Job = {j1, j2}
  NoJob = NoJob
  Lagging = {}
  ListOrder = {o1}
  BackoffLimit = 0
  MaxGen = 1
  MaxDrifts = 0
  MaxCrashes = 0
  MaxFailures = 0
PROPERTIES
  ReleasedChildIsPurged
CHECK_DEADLOCK FALSE
