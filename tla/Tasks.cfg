SPECIFICATION Spec
CONSTANTS
  Tasks = {t1, t2, t3, t4}  NoTask = NoTask  About <- ItsOwn
  Permits = 3  Attempts = 2
  FaultKinds <- AllFaults  MaxFaults = 2
SYMMETRY TaskSymmetry
INVARIANTS
  TypeOK OneAtATime NoHole SendsSharedNonce NonceIsNext QuietReleases
  SomeoneReady ReceiptComes
PROPERTIES WindsDown
CHECK_DEADLOCK FALSE
