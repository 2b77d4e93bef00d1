SPECIFICATION FairSpec
CONSTANTS
  Projects = {p1}
  Window = 1  Buffer = 3  HeadLag = 1  LogLag = 1
  FaultKinds <- AllFaults  MaxFaults = 1
  MaxEpoch = 2  MaxBlock = 5  MaxClock = 3  InitCheckpoint = 1
INVARIANTS TypeOK MemoryExact SteadyKeeps
PROPERTIES ForcesOpen EveryEpochForced
