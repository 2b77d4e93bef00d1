SPECIFICATION Spec
CONSTANTS
  Tasks = {t1, t2}  NoTask = NoTask  About <- ItsOwn
  Permits = 20  Attempts = 2
  FaultKinds <- AllFaults  MaxFaults = 1
INVARIANTS OverReleases
CHECK_DEADLOCK FALSE
