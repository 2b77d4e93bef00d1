SPECIFICATION Spec
CONSTANTS
  Projects = {p1}
  Window = 1  Buffer = 9  HeadLag = 0  LogLag = 0
  FaultKinds <- Restarts  MaxFaults = 1
  MaxEpoch = 1  MaxBlock = 4  MaxClock = 3  InitCheckpoint = 1
INVARIANTS NoEpochLost
