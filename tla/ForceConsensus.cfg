SPECIFICATION ForceSpec
CONSTANTS
  Projects = {p1}
  Window = 1  Buffer = 9  HeadLag = 0  LogLag = 0
  FaultKinds <- Restarts  MaxFaults = 1
  MaxEpoch = 2  MaxBlock = 5  MaxClock = 3  InitCheckpoint = 1
  NoTask = NoTask  Permits = 2  Attempts = 2
  TaskFaultKinds <- CallFaults  MaxTaskFaults = 1
INVARIANTS NonceKept
PROPERTIES KeepsPromise
