SPECIFICATION Spec
CONSTANTS
  Child = {c1}
  Confidential = {}
  Job = {j1, j2}
  NoJob = NoJob
  Lagging = {}
  ListOrder = {o1}
  BackoffLimit = 0
  MaxGen = 1
  MaxDrifts = 0
  MaxCrashes = 1
  MaxFailures = 2
SYMMETRY JobSymmetry
INVARIANTS
  TypeOK
  TrackedJobExists
  PodsFindSecret
  ReadyMeansImported
PROPERTIES
  ReadyBackedByTrackedJob
  CalmDeletionPurges
  KeepsDeletionProtocol
CHECK_DEADLOCK FALSE
